---- MODULE Spec2Model ----
(***************************************************************************)
(* A model of nmri, a command line calculator (src/nmri.c): the tokenizer, *)
(* the shunting-yard conversion, the postfix evaluator, the variable store *)
(* , the assignment handler, the built-in commands and the interactive     *)
(* loop of main.                                                           *)
(*                                                                         *)
(* Text is a sequence of one-character strings, so the tokenizer works on  *)
(* characters as the C code does.  A double is modelled by its place next  *)
(* to a rational n/d (kind "fin": the double u doubles from the one        *)
(* nearest to n/d, negative zero apart from zero), by NaN (the error       *)
(* sentinel of the code, kind "nan"), or by a symbol (kind "sym"): a named *)
(* constant of the tokenizer (pi, e, ..., inf) or an irrational function   *)
(* value such as sqrt(2), which is a double that is not NaN and whose      *)
(* digits are not tracked.  Arithmetic that leaves this domain (an         *)
(* operation on a symbol, a magnitude above MaxAbs, a rounding the model   *)
(* cannot decide) has kind "oom"; the actions do not take inputs whose     *)
(* evaluation produces such a value.  What a call writes to stderr is kept *)
(* as text: the messages without their colours and without the values the  *)
(* format inserts, one after the other.                                    *)
(***************************************************************************)
EXTENDS Integers, Sequences, FiniteSets, TLC

VARIABLES variables, last_result, memory, call,
          pc, input, tokens, postfix, result,
          argv, exit_code, command_history, commands, eval_stack, eval_i, eval_err

vars == <<variables, last_result, memory, call, pc, input, tokens, postfix, result,
          argv, exit_code, command_history, commands, eval_stack, eval_i, eval_err>>

(* ---------------- configuration constants (src/nmri.c:48-52) ------------ *)

MAX_TOKENS == 100

MAX_IDENTIFIER_LEN == 32

MAX_VARIABLES == 100

NMRI_MAX_INPUT == 256

(* ---------------- bounds of the model ----------------------------------- *)

\* largest numerator and denominator of a modelled double
MaxAbs == 10000

\* number of interactive lines handled in one explored session
MaxSteps == 2

\* numeric literals of the generated expressions are 0..MaxOperand
MaxOperand == 4

\* the longest token sequence handed to shunting_yard and evaluate_postfix
MaxTokenCount == 5

\* the most arguments on a command line
MaxArgs == 3

\* the longest postfix sequence evaluated pass by pass
MaxPostfix == 4

\* add_to_history calls explored from a history
MaxCalls == 3

(* ---------------- characters (ctype.h as used by the code) -------------- *)

Digits == {"0", "1", "2", "3", "4", "5", "6", "7", "8", "9"}

Lower == {"a", "b", "c", "d", "e", "f", "g", "h", "i", "j", "k", "l", "m",
          "n", "o", "p", "q", "r", "s", "t", "u", "v", "w", "x", "y", "z"}

Upper == {"A", "B", "C", "D", "E", "F", "G", "H", "I", "J", "K", "L", "M",
          "N", "O", "P", "Q", "R", "S", "T", "U", "V", "W", "X", "Y", "Z"}

\* isspace in the C locale: space, \t, \n, \v, \f, \r; "\\v" stands for the
\* vertical tab
isspace(ch) == ch \in {" ", "\t", "\n", "\\v", "\f", "\r"}

isdigit(ch) == ch \in Digits

isalpha(ch) == ch \in Lower \cup Upper

isalnum(ch) == isalpha(ch) \/ isdigit(ch)

\* the character at 1-based position p of text s; "" stands for the final NUL
At(s, p) == IF p >= 1 /\ p <= Len(s) THEN s[p] ELSE ""

DigitVal(ch) ==
    CASE ch = "0" -> 0 [] ch = "1" -> 1 [] ch = "2" -> 2 [] ch = "3" -> 3
      [] ch = "4" -> 4 [] ch = "5" -> 5 [] ch = "6" -> 6 [] ch = "7" -> 7
      [] ch = "8" -> 8 [] ch = "9" -> 9 [] OTHER -> 0

(* ---------------- doubles ----------------------------------------------- *)

\* An operation receives its arguments as values: Op(a0, b0) binds a to the
\* value of a0 and b to the value of b0 before it works on them.

Abs(i) == IF i < 0 THEN -i ELSE i

RECURSIVE Gcd(_, _)
Gcd(a, b) == IF b = 0 THEN a ELSE Gcd(b, a % b)

\* the one element of a singleton set; { e : x \in {v} } computes v once and
\* binds x to it, as a C local holds the value a call returned
Only(S) == CHOOSE x \in S : TRUE

\* A double the model follows is a record of kind "fin": the double that lies
\* u doubles further from zero than the double nearest to the rational n/d
\* (d > 0, n/d in lowest terms). Every double that a correctly rounded
\* operation returns from exact operands has u = 0. The zero is 0/1, the
\* negative zero 0/-1.
Fin(n, d, u) == [k |-> "fin", n |-> n, d |-> d, u |-> u, name |-> ""]

\* a double the model does not follow
Oom == [k |-> "oom", n |-> 0, d |-> 1, u |-> 0, name |-> ""]

NAN == [k |-> "nan", n |-> 0, d |-> 1, u |-> 0, name |-> ""]

\* a double known by name only: a named constant, or func(n/d)
Sym(nm, n, d) == [k |-> "sym", n |-> n, d |-> d, u |-> 0, name |-> nm]

\* func(v) of a followed double v, known by name only
SymOf(nm, v) == [k |-> "sym", n |-> v.n, d |-> v.d, u |-> v.u, name |-> nm]

Const(nm) == Sym(nm, 0, 1)

NegZero == Fin(0, -1, 0)

\* the double nearest to n/d, d # 0; not followed beyond MaxAbs
Rat(n, d) ==
    LET g == Gcd(Abs(n), Abs(d))
        s == IF d < 0 THEN -1 ELSE 1
        nn == s * (n \div g)
        dd == Abs(d) \div g
    IN IF Abs(nn) > MaxAbs \/ dd > MaxAbs THEN Oom ELSE Fin(nn, dd, 0)

Num(i) == Rat(i, 1)

IsFin(v) == v.k = "fin"

isnan(v) == v.k = "nan"

IsZero(v) == IsFin(v) /\ v.n = 0

\* -1 for the doubles below zero and the negative zero, 1 for the others
Sign(v0) ==
    Only({
     IF v.n < 0 \/ (v.n = 0 /\ v.d < 0) THEN -1 ELSE 1 :
           v \in {v0} })

Zero(s) == IF s < 0 THEN NegZero ELSE Num(0)

\* --- the binary64 format: 53 significant bits, round to nearest, ties to even

\* floor(log2(n/d)) for n, d in 1..MaxAbs
RECURSIVE FlUp(_, _, _)
FlUp(n, d, j) == IF 2 * j * d <= n THEN FlUp(n, d, 2 * j) ELSE j

RECURSIVE FlDown(_, _, _)
FlDown(n, d, j) == IF j * n < d THEN FlDown(n, d, 2 * j) ELSE j

RECURSIVE Log2(_)
Log2(j) == IF j <= 1 THEN 0 ELSE 1 + Log2(j \div 2)

Fl(n, d) == IF n >= d THEN Log2(FlUp(n, d, 1)) ELSE -Log2(FlDown(n, d, 1))

\* the doubles around n/d are the multiples of 2^-E(n, d)
E(n, d) == 52 - Fl(Abs(n), d)

\* 2^e mod m
RECURSIVE PowMod2(_, _)
PowMod2(e, m) ==
    IF e < 15 THEN (2 ^ e) % m ELSE (PowMod2(e - 15, m) * (32768 % m)) % m

\* |n| * 2^e mod m, for m up to 2 * MaxAbs
G(n, d, e, m) == ((Abs(n) % m) * PowMod2(e, m)) % m

\* whether the double nearest to |n/d| is the multiple of 2^-E above it (1)
\* or the one at or below it (0)
Base(n, d) == IF 2 * G(n, d, E(n, d), d) < d THEN 0 ELSE 1

\* the error of a followed double v # 0, away from zero, as a multiple of
\* 2^-E / d: |v| = |n|/d + T(v) / (d * 2^E)
T(v0) ==
    Only({
        Only({ (IF 2 * g < v.d THEN -g ELSE v.d - g) + v.u * v.d :
               g \in {G(v.n, v.d, E(v.n, v.d), v.d)} }) :
           v \in {v0} })

IsExact(v0) ==
    Only({
     IsZero(v) \/ T(v) = 0 :
           v \in {v0} })

IsPow2(n, d) ==
    \/ d = 1 /\ \E j \in 0..14 : Abs(n) = 2 ^ j
    \/ Abs(n) = 1 /\ \E j \in 0..14 : d = 2 ^ j

\* --- small rationals for the errors; ok is FALSE when a product would not
\* --- fit the integers of the model

Q(n, d) ==
    Only({ [ok |-> TRUE, n |-> (IF d < 0 THEN -n ELSE n) \div g, d |-> Abs(d) \div g] :
           g \in {IF n = 0 THEN Abs(d) ELSE Gcd(Abs(n), Abs(d))} })

QBad == [ok |-> FALSE, n |-> 0, d |-> 1]

Fits(x) == Abs(x) <= 32767

QMul(a0, b0) ==
    Only({
        IF ~(a.ok /\ b.ok) THEN QBad
        ELSE Only({ IF Fits(x[1]) /\ Fits(x[2]) /\ Fits(x[3]) /\ Fits(x[4])
                    THEN Q(x[1] * x[2], x[3] * x[4]) ELSE QBad :
                    x \in { Only({ <<a.n \div g[1], b.n \div g[2], a.d \div g[2], b.d \div g[1]>> :
                                   g \in {<<IF a.n = 0 THEN b.d ELSE Gcd(Abs(a.n), b.d),
                                            IF b.n = 0 THEN a.d ELSE Gcd(Abs(b.n), a.d)>>} }) } }) :
           a \in {a0}, b \in {b0} })

QAdd(a0, b0) ==
    Only({
        IF ~(a.ok /\ b.ok) THEN QBad
        ELSE Only({ IF Fits(a.n) /\ Fits(b.n) /\ Fits(a.d \div g) /\ Fits(b.d \div g) /\ Fits(b.d)
                    THEN Q(a.n * (b.d \div g) + b.n * (a.d \div g), (a.d \div g) * b.d)
                    ELSE QBad :
                    g \in {Gcd(a.d, b.d)} }) :
           a \in {a0}, b \in {b0} })

QNeg(a0) ==
    Only({
     [a EXCEPT !.n = -a.n] :
           a \in {a0} })

\* 2^j
QPow2(j) == IF Abs(j) > 14 THEN QBad ELSE IF j >= 0 THEN Q(2 ^ j, 1) ELSE Q(1, 2 ^ (-j))

\* the relative error of v # 0 as a multiple of 2^-K
Rel(v0, K0) ==
    Only({
     QMul(Q(T(v), Abs(v.n)), QPow2(K - E(v.n, v.d))) :
           v \in {v0}, K \in {K0} })

\* the error of v # 0, away from zero, as a multiple of 2^-K
Err(v0, K0) ==
    Only({
     QMul(Q(T(v), v.d), QPow2(K - E(v.n, v.d))) :
           v \in {v0}, K \in {K0} })

\* bound on the places a result may lie from the double nearest to its rational
MaxUlps == 16

\* the double nearest to x, where |x| = |r| + C * 2^-E (+ a part below
\* 2^-40 of that unit unless exact); r = Rat(n, d) # 0 and C a small rational.
\* Not followed: a tie that the unknown part decides, a result that lies
\* below a power of two by less than it lies from it in its own unit, and with
\* loose (the library promises only 0.52 units) anything near a tie.
RoundTo(r0, C0, exact0, loose0) ==
    Only({
        IF ~IsFin(r) \/ ~C.ok THEN Oom
        ELSE IF IsPow2(r.n, r.d) /\ C.n < 0
        THEN (IF ~loose /\ Fits(C.n) /\ (-4 * C.n < C.d \/ (exact /\ -4 * C.n = C.d))
              THEN r ELSE Oom)
        ELSE
        Only({ IF ~F.ok THEN Oom
               ELSE Only({ IF loose /\ ~(C.n = 0 /\ IsExact(r))
                              /\ Abs(2 * (F.n % F.d) - F.d) <= (F.d \div 8) + 1
                           THEN Oom
                           ELSE IF 2 * (F.n % F.d) = F.d /\ ~exact THEN Oom
                           ELSE IF Abs(m - Base(r.n, r.d)) > MaxUlps THEN Oom
                           ELSE Fin(r.n, r.d, m - Base(r.n, r.d)) :
                           m \in { IF 2 * (F.n % F.d) < F.d THEN F.n \div F.d
                                   ELSE IF 2 * (F.n % F.d) > F.d THEN (F.n \div F.d) + 1
                                   ELSE IF (F.n \div F.d
                                            + (IF G(r.n, r.d, E(r.n, r.d), 2 * r.d) >= r.d
                                               THEN 1 ELSE 0)) % 2 = 0
                                   THEN F.n \div F.d
                                   ELSE (F.n \div F.d) + 1 } }) :
               F \in {QAdd(Q(G(r.n, r.d, E(r.n, r.d), r.d), r.d), C)} }) :
           r \in {r0}, C \in {C0}, exact \in {exact0}, loose \in {loose0} })

\* --- the operations

Neg(a0) ==
    Only({
        IF ~IsFin(a) THEN a
        ELSE IF a.n = 0 THEN Zero(-Sign(a))
        ELSE Fin(-a.n, a.d, a.u) :
           a \in {a0} })

\* comparisons of doubles; every comparison with NaN is false
Compare(a0, b0) ==
    Only({
        IF a.n * Abs(b.d) # b.n * Abs(a.d)
        THEN (IF a.n * Abs(b.d) < b.n * Abs(a.d) THEN -1 ELSE 1)
        ELSE IF a.n = 0 \/ a.u = b.u THEN 0
        ELSE IF (a.u < b.u) = (a.n > 0) THEN -1 ELSE 1 :
           a \in {a0}, b \in {b0} })

Less(a, b) == IsFin(a) /\ IsFin(b) /\ Compare(a, b) < 0

Leq(a, b) == IsFin(a) /\ IsFin(b) /\ Compare(a, b) <= 0

\* a whole number
IsInt(v0) ==
    Only({
     IsFin(v) /\ (v.n = 0 \/ v.d = 1) /\ v.u = 0 :
           v \in {v0} })

\* a + b: exact, then rounded
Add(a0, b0) ==
    Only({
        IF isnan(a) \/ isnan(b) THEN NAN
        ELSE IF ~(IsFin(a) /\ IsFin(b)) THEN Oom
        ELSE IF a.n = 0 /\ b.n = 0 THEN Zero(IF Sign(a) < 0 /\ Sign(b) < 0 THEN -1 ELSE 1)
        ELSE IF a.n = 0 THEN b
        ELSE IF b.n = 0 THEN a
        ELSE IF a.n * b.d + b.n * a.d = 0 THEN (IF a.u = b.u THEN Num(0) ELSE Oom)
        ELSE Only({ IF ~IsFin(r) THEN Oom
                    ELSE Only({ RoundTo(r,
                                        QAdd(QMul(Err(a, K), Q(Sign(r) * Sign(a), 1)),
                                             QMul(Err(b, K), Q(Sign(r) * Sign(b), 1))),
                                        TRUE, FALSE) :
                                K \in {E(r.n, r.d)} }) :
                    r \in {Rat(a.n * b.d + b.n * a.d, a.d * b.d)} }) :
           a \in {a0}, b \in {b0} })

\* a - b; INFINITY - INFINITY is NaN
Sub(a, b) ==
    IF a.k = "sym" /\ a.name = "inf" /\ a = b THEN NAN ELSE Add(a, Neg(b))

\* a * b: exact when one of the two is, else to the first order in the errors
Mul(a0, b0) ==
    Only({
        IF isnan(a) \/ isnan(b) THEN NAN
        ELSE IF ~(IsFin(a) /\ IsFin(b)) THEN Oom
        ELSE IF a.n = 0 \/ b.n = 0 THEN Zero(Sign(a) * Sign(b))
        ELSE Only({ IF ~IsFin(r) THEN Oom
                    ELSE Only({ RoundTo(r,
                                        QMul(Q(Abs(r.n), r.d), QAdd(Rel(a, K), Rel(b, K))),
                                        IsExact(a) \/ IsExact(b), FALSE) :
                                K \in {E(r.n, r.d)} }) :
                    r \in {Rat(a.n * b.n, a.d * b.d)} }) :
           a \in {a0}, b \in {b0} })

\* a / b, b not zero
Div(a0, b0) ==
    Only({
        IF isnan(a) \/ isnan(b) THEN NAN
        ELSE IF ~(IsFin(a) /\ IsFin(b)) THEN Oom
        ELSE IF b.n = 0 THEN Oom
        ELSE IF a.n = 0 THEN Zero(Sign(a) * Sign(b))
        ELSE Only({ IF ~IsFin(r) THEN Oom
                    ELSE Only({ RoundTo(r,
                                        QMul(Q(Abs(r.n), r.d),
                                             QAdd(Rel(a, K), QNeg(Rel(b, K)))),
                                        IsExact(b), FALSE) :
                                K \in {E(r.n, r.d)} }) :
                    r \in {Rat(a.n * b.d, a.d * b.n)} }) :
           a \in {a0}, b \in {b0} })

\* value / 100.0, the normalisation of a percentage
Percent(v) == Div(v, Num(100))

\* n^e for n in 0..MaxAbs and a natural e, MaxAbs + 1 when it is above MaxAbs
\* (as 2^15 is and with it every power of n >= 2 beyond the fourteenth)
RECURSIVE PowNat(_, _)
PowNat(n, e) ==
    IF e = 0 \/ n = 1 THEN 1
    ELSE IF n = 0 THEN 0
    ELSE IF e > 14 /\ MaxAbs < 2 ^ 15 THEN MaxAbs + 1
    ELSE Only({ IF p > MaxAbs \/ p * n > MaxAbs THEN MaxAbs + 1 ELSE p * n :
                p \in {PowNat(n, e - 1)} })

\* pow(a, e) for a followed a # 0 and a whole e # 0: the library's result is
\* the double nearest to the power unless that is near a tie
PowWhole(a0, e0) ==
    Only({
        IF e = 1 THEN a
        ELSE
        Only({ IF pw[1] > MaxAbs \/ pw[2] > MaxAbs THEN Oom
               ELSE Only({ RoundTo(r, QMul(QMul(Q(Abs(r.n), r.d), Rel(a, E(r.n, r.d))),
                                           IF Fits(e) THEN Q(e, 1) ELSE QBad),
                                   IsExact(a), TRUE) :
                           r \in {Rat((IF a.n < 0 /\ e % 2 = 1 THEN -1 ELSE 1) * pw[1], pw[2])} }) :
               pw \in { IF e > 0 THEN <<PowNat(Abs(a.n), e), PowNat(a.d, e)>>
                        ELSE <<PowNat(a.d, -e), PowNat(Abs(a.n), -e)>> } }) :
           a \in {a0}, e \in {e0} })

\* pow(a, b) of math.h
pow(a0, b0) ==
    Only({
        IF IsZero(b) THEN Num(1)
        ELSE IF a = Num(1) THEN Num(1)
        ELSE IF isnan(a) \/ isnan(b) THEN NAN
        ELSE IF ~(IsFin(a) /\ IsFin(b)) THEN Oom
        ELSE IF a.n = 0
        THEN (IF b.n > 0
              THEN (IF IsInt(b) /\ b.n % 2 = 1 THEN a ELSE Num(0))
              ELSE (IF IsInt(b) /\ b.n % 2 = 1 /\ Sign(a) < 0 THEN Const("-inf")
                    ELSE Const("inf")))
        ELSE IF ~IsInt(b) THEN (IF a.n < 0 THEN NAN ELSE Oom)
        ELSE IF Abs(b.n) > 32 /\ ~(Abs(a.n) = 1 /\ a.d = 1 /\ a.u = 0) THEN Oom
        ELSE IF Abs(a.n) = 1 /\ a.d = 1 /\ a.u = 0 THEN (IF b.n % 2 = 0 THEN Num(1) ELSE a)
        ELSE PowWhole(a, b.n) :
           a \in {a0}, b \in {b0} })

\* fmod(a, b) of math.h: a - q * b for the whole q with |q * b| <= |a| < |(q + 1) * b|,
\* with the sign of a; it is exact
FmodBy(a0, b0, q0) ==
    Only({
        Only({ IF p <= 0 THEN Oom
               ELSE Only({ IF ~IsFin(r) THEN Oom
                           ELSE Only({ IF ~F.ok \/ F.d # 1 THEN Oom
                                       ELSE IF Abs(F.n - Base(r.n, r.d)) > MaxUlps THEN Oom
                                       ELSE IF F.n < Base(r.n, r.d) /\ IsPow2(r.n, r.d) THEN Oom
                                       ELSE Fin(Sign(a) * r.n, r.d, F.n - Base(r.n, r.d)) :
                                       F \in {QAdd(Q(G(r.n, r.d, E(r.n, r.d), r.d), r.d),
                                                   QAdd(Err(a, E(r.n, r.d)),
                                                        QMul(Err(b, E(r.n, r.d)),
                                                             IF Fits(q) THEN Q(-q, 1) ELSE QBad)))} }) :
                           r \in {Rat(p, a.d * b.d)} }) :
               p \in {Abs(a.n) * b.d - q * Abs(b.n) * a.d} }) :
           a \in {a0}, b \in {b0}, q \in {q0} })

fmod(a0, b0) ==
    Only({
        IF isnan(a) \/ isnan(b) THEN NAN
        ELSE IF ~(IsFin(a) /\ IsFin(b)) THEN Oom
        ELSE IF b.n = 0 THEN NAN
        ELSE IF a.n = 0 THEN a
        ELSE IF (Abs(a.n) * b.d) % (a.d * Abs(b.n)) # 0
        THEN FmodBy(a, b, (Abs(a.n) * b.d) \div (a.d * Abs(b.n)))
        ELSE \* |a| / |b| is a whole number but for the errors of a and b
        Only({ IF ~dn.ok THEN Oom
               ELSE IF dn.n = 0 THEN Zero(Sign(a))
               ELSE IF dn.n > 0 THEN Oom
               ELSE FmodBy(a, b, ((Abs(a.n) * b.d) \div (a.d * Abs(b.n))) - 1) :
               dn \in {QAdd(Rel(a, 52), QNeg(Rel(b, 52)))} }) :
           a \in {a0}, b \in {b0} })

\* floor(x) of math.h
floor(v0) ==
    Only({
        IF isnan(v) THEN NAN
        ELSE IF ~IsFin(v) THEN Oom
        ELSE IF v.n = 0 THEN v
        ELSE IF v.d = 1 /\ v.u # 0
        THEN (IF (v.u < 0) = (v.n > 0) THEN Num(v.n - 1) ELSE Num(v.n))
        ELSE Num(v.n \div v.d) :
           v \in {v0} })

\* ceil(x) of math.h
ceil(v) == Neg(floor(Neg(v)))

\* round(x) of math.h: halves are rounded away from zero
round(v0) ==
    Only({
        IF isnan(v) THEN NAN
        ELSE IF ~IsFin(v) THEN Oom
        ELSE IF v.n = 0 THEN v
        ELSE Only({ IF m = 0 THEN Zero(Sign(v)) ELSE Num(Sign(v) * m) :
                    m \in { IF v.d = 2 /\ v.u < 0 THEN Abs(v.n) \div 2
                                                    ELSE (2 * Abs(v.n) + v.d) \div (2 * v.d) } }) :
           v \in {v0} })

fabs(v0) ==
    Only({
     IF IsFin(v) THEN Fin(Abs(v.n), Abs(v.d), v.u) ELSE IF isnan(v) THEN NAN ELSE Oom :
           v \in {v0} })

\* the natural number whose square is m, or -1 when m is no perfect square
RECURSIVE RootFrom(_, _)
RootFrom(m, r) == IF r * r = m THEN r ELSE IF r * r > m THEN -1 ELSE RootFrom(m, r + 1)

\* sqrt(x) of math.h: correctly rounded; followed on squares of rationals,
\* NaN below zero
sqrt(v0) ==
    Only({
        IF isnan(v) THEN NAN
        ELSE IF ~IsFin(v) THEN Oom
        ELSE IF v.n = 0 THEN v
        ELSE IF v.n < 0 THEN NAN
        ELSE Only({ IF rt[1] < 0 \/ rt[2] < 0 THEN SymOf("sqrt", v)
                    ELSE Only({ RoundTo(r, QMul(QMul(Q(r.n, r.d), Rel(v, E(r.n, r.d))), Q(1, 2)),
                                        IsExact(v), FALSE) :
                                r \in {Rat(rt[1], rt[2])} }) :
                    rt \in {<<RootFrom(v.n, 0), RootFrom(v.d, 1)>>} }) :
           v \in {v0} })

\* a transcendental function nm of math.h: exact at its rational point `at`
\* (a zero is returned with its sign), a symbol elsewhere
Transc(nm0, v0, at0, val0) ==
    Only({
        IF isnan(v) THEN NAN
        ELSE IF ~IsFin(v) THEN Oom
        ELSE IF IsZero(v) /\ IsZero(at) THEN (IF IsZero(val) THEN v ELSE val)
        ELSE IF v = at THEN val
        ELSE SymOf(nm, v) :
           nm \in {nm0}, v \in {v0}, at \in {at0}, val \in {val0} })

(* ---------------- names ------------------------------------------------- *)

\* the identifiers the code compares with strcmp, as text
ANS == <<"a", "n", "s">>

ConstantNames ==
    { <<"p", "i">>, <<"e">>, <<"p", "h", "i">>, <<"g", "a", "m", "m", "a">>, <<"c">>,
      <<"h">>, <<"G">>, <<"N", "a">>, <<"k">>, <<"i", "n", "f">> }

\* function_map: the function names and the FunctionType of each
function_map ==
    { <<<<"s", "i", "n">>, "FUNC_SIN">>, <<<<"c", "o", "s">>, "FUNC_COS">>,
      <<<<"t", "a", "n">>, "FUNC_TAN">>, <<<<"a", "s", "i", "n">>, "FUNC_ASIN">>,
      <<<<"a", "c", "o", "s">>, "FUNC_ACOS">>, <<<<"a", "t", "a", "n">>, "FUNC_ATAN">>,
      <<<<"l", "o", "g">>, "FUNC_LOG">>, <<<<"l", "n">>, "FUNC_LOG">>,
      <<<<"s", "q", "r", "t">>, "FUNC_SQRT">>, <<<<"e", "x", "p">>, "FUNC_EXP">>,
      <<<<"a", "b", "s">>, "FUNC_ABS">>, <<<<"f", "l", "o", "o", "r">>, "FUNC_FLOOR">>,
      <<<<"c", "e", "i", "l">>, "FUNC_CEIL">>, <<<<"r", "o", "u", "n", "d">>, "FUNC_ROUND">> }

FunctionNames == { fm[1] : fm \in function_map }

\* the FunctionType of a name, FUNC_INVALID when function_map has no such name
FunctionOf(identifier) ==
    IF identifier \in FunctionNames
    THEN (CHOOSE fm \in function_map : fm[1] = identifier)[2]
    ELSE "FUNC_INVALID"

\* the symbol that stands for the value of a constant name
ConstantSymbol(identifier) ==
    CASE identifier = <<"p", "i">> -> "pi"
      [] identifier = <<"e">> -> "e"
      [] identifier = <<"p", "h", "i">> -> "phi"
      [] identifier = <<"g", "a", "m", "m", "a">> -> "gamma"
      [] identifier = <<"c">> -> "c"
      [] identifier = <<"h">> -> "h"
      [] identifier = <<"G">> -> "G"
      [] identifier = <<"N", "a">> -> "Na"
      [] identifier = <<"k">> -> "k"
      [] OTHER -> "inf"

(* ---------------- the variable store ------------------------------------ *)

\* strncpy(dst, name, MAX_IDENTIFIER_LEN - 1) and the terminating NUL
CopyName(name) ==
    IF Len(name) > MAX_IDENTIFIER_LEN - 1 THEN SubSeq(name, 1, MAX_IDENTIFIER_LEN - 1)
    ELSE name

\* the index (from 0) of the first entry of store vs called name, or -1:
\* the loop of find_variable returns at the first i with strcmp(...) == 0
find_variable(vs, name) ==
    LET hits == { i \in 1..Len(vs) : vs[i].name = name }
    IN IF hits = {} THEN -1
       ELSE (CHOOSE i \in hits : \A j \in hits : i <= j) - 1

\* the message of set_variable on a full store; %d is MAX_VARIABLES
ErrStoreFull == "Maximum number of variables (100) reached."

\* two texts written to stderr one after the other
Join(first, second) ==
    IF first = "" THEN second
    ELSE IF second = "" THEN first
    ELSE first \o "\n" \o second

\* set_variable as it would be if it looked for room before it looked for the name
set_variable_room_first(vs, name, value) ==
    IF name = <<>> THEN [ret |-> -1, variables |-> vs, err |-> ""]
    ELSE IF Len(vs) >= MAX_VARIABLES THEN [ret |-> -1, variables |-> vs, err |-> ErrStoreFull]
    ELSE LET index == find_variable(vs, name)
         IN IF index >= 0
            THEN [ret |-> index,
                  variables |-> [vs EXCEPT ![index + 1].value = value], err |-> ""]
            ELSE [ret |-> Len(vs),
                  variables |-> Append(vs, [name |-> CopyName(name), value |-> value]),
                  err |-> ""]

\* set_variable on store vs: the returned index (or -1), the store after it and
\* the message it prints; an empty name is refused without a message
set_variable(vs, name, value) ==
    IF name = <<>> THEN [ret |-> -1, variables |-> vs, err |-> ""]
    ELSE LET index == find_variable(vs, name)
         IN IF index >= 0
            THEN [ret |-> index,
                  variables |-> [vs EXCEPT ![index + 1].value = value], err |-> ""]
            ELSE IF Len(vs) >= MAX_VARIABLES
            THEN [ret |-> -1, variables |-> vs, err |-> ErrStoreFull]
            ELSE [ret |-> Len(vs),
                  variables |-> Append(vs, [name |-> CopyName(name), value |-> value]),
                  err |-> ""]

(* ---------------- tokens ------------------------------------------------ *)

Token(type, pct, number, op, func, var_name) ==
    [type |-> type, is_percentage |-> pct, number |-> number, op |-> op,
     func |-> func, var_name |-> var_name]

NumberToken(number, pct) == Token("TOKEN_NUMBER", pct, number, "", "", <<>>)

OperatorToken(op) == Token("TOKEN_OPERATOR", 0, Num(0), op, "", <<>>)

FunctionToken(func) == Token("TOKEN_FUNCTION", 0, Num(0), "", func, <<>>)

LParenToken == Token("TOKEN_LPAREN", 0, Num(0), "", "", <<>>)

RParenToken == Token("TOKEN_RPAREN", 0, Num(0), "", "", <<>>)

AssignmentToken(var_name) == Token("TOKEN_ASSIGNMENT", 0, Num(0), "", "", var_name)

\* a token of the legacy type TOKEN_VARIABLE; tokenize emits none
VariableToken(var_name) == Token("TOKEN_VARIABLE", 0, Num(0), "", "", var_name)

OperatorChars == {"+", "-", "*", "/", "^", "%"}

char_to_op(ch) ==
    CASE ch = "+" -> "OP_ADD"
      [] ch = "-" -> "OP_SUB"
      [] ch = "*" -> "OP_MUL"
      [] ch = "/" -> "OP_DIV"
      [] ch = "^" -> "OP_POW"
      [] ch = "%" -> "OP_MOD"
      [] OTHER -> "OP_INVALID"

(* ---------------- strtod ------------------------------------------------ *)

\* the first position at or after p of text s that holds no character of set cs
RECURSIVE SkipWhile(_, _, _)
SkipWhile(s, p, cs) == IF At(s, p) \in cs THEN SkipWhile(s, p + 1, cs) ELSE p

\* the characters isspace accepts: space, \t, \n, \v, \f, \r; "\\v" stands
\* for the vertical tab
Whitespace == {" ", "\t", "\n", "\\v", "\f", "\r"}

IdentifierChars == Lower \cup Upper \cup Digits \cup {"_"}

HexChars == Digits \cup {"a", "b", "c", "d", "e", "f", "A", "B", "C", "D", "E", "F"}

HexVal(ch) ==
    CASE ch \in Digits -> DigitVal(ch)
      [] ch \in {"a", "A"} -> 10 [] ch \in {"b", "B"} -> 11 [] ch \in {"c", "C"} -> 12
      [] ch \in {"d", "D"} -> 13 [] ch \in {"e", "E"} -> 14 [] OTHER -> 15

\* the number written in base b by the digits ds, MaxAbs * MaxAbs + 1 when
\* it is above MaxAbs * MaxAbs
RECURSIVE NatOf(_, _, _)
NatOf(ds, to, b) ==
    IF to = 0 THEN 0
    ELSE Only({ IF hi > MaxAbs * MaxAbs \/ hi * b + HexVal(ds[to]) > MaxAbs * MaxAbs
                THEN MaxAbs * MaxAbs + 1
                ELSE hi * b + HexVal(ds[to]) :
                hi \in {NatOf(ds, to - 1, b)} })

\* the digits of set cs at positions from..to-1 of s
DigitsOf(s, from, to, cs) == SelectSeq(SubSeq(s, from, to - 1), LAMBDA ch : ch \in cs)

\* the double nearest to m * b^x, for a natural m and b in {2, 10};
\* strtod rounds correctly
Scaled(m, b, x) ==
    IF m = 0 THEN Num(0)
    ELSE IF m > MaxAbs * MaxAbs \/ Abs(x) > (IF b = 2 THEN 26 ELSE 8) THEN Oom
    ELSE IF x < 0 THEN Rat(m, b ^ (-x))
    ELSE IF m > (MaxAbs * MaxAbs) \div (b ^ x) THEN Oom
    ELSE Rat(m * b ^ x, 1)

\* the exponent part that starts at position f of s with one of the letters
\* in marks: its sign, its digits and the position after it; without a digit
\* nothing is read
ExponentAt(s, f, marks) ==
    Only({ IF At(s, f) \in marks /\ At(s, es) \in Digits
           THEN Only({ [val |-> (IF At(s, f + 1) = "-" THEN -1 ELSE 1)
                                * (IF NatOf(DigitsOf(s, es, ee, Digits), ee - es, 10) > MaxAbs
                                   THEN MaxAbs
                                   ELSE NatOf(DigitsOf(s, es, ee, Digits), ee - es, 10)),
                        end |-> ee] :
                       ee \in {SkipWhile(s, es, Digits)} })
           ELSE [val |-> 0, end |-> f] :
           es \in {IF At(s, f + 1) \in {"+", "-"} THEN f + 2 ELSE f + 1} })

\* the digits before and after the point read from position p of s: all the
\* digits, the number of them after the point and the position after them
MantissaAt(s, p, cs) ==
    Only({ Only({ [digits |-> DigitsOf(s, p, f, cs),
                   frac |-> IF At(s, i) = "." THEN f - (i + 1) ELSE 0,
                   end |-> f] :
                  f \in {IF At(s, i) = "." THEN SkipWhile(s, i + 1, cs) ELSE i} }) :
           i \in {SkipWhile(s, p, cs)} })

\* strtod(p, &end) at a position p of s that holds a digit, or a '.' before a
\* digit: the value read and the position end after it. A hexadecimal number
\* is 0x, hexadecimal digits with an optional point, and an optional binary
\* exponent p; a decimal one has an optional decimal exponent e.
strtod(s, p) ==
    IF At(s, p) = "0" /\ At(s, p + 1) \in {"x", "X"}
       /\ (At(s, p + 2) \in HexChars \/ (At(s, p + 2) = "." /\ At(s, p + 3) \in HexChars))
    THEN Only({ Only({ [value |-> Scaled(NatOf(m.digits, Len(m.digits), 16), 2,
                                         ex.val - 4 * m.frac),
                        end |-> ex.end] :
                       ex \in {ExponentAt(s, m.end, {"p", "P"})} }) :
                m \in {MantissaAt(s, p + 2, HexChars)} })
    ELSE Only({ Only({ [value |-> Scaled(NatOf(m.digits, Len(m.digits), 10), 10,
                                         ex.val - m.frac),
                        end |-> ex.end] :
                       ex \in {ExponentAt(s, m.end, {"e", "E"})} }) :
                m \in {MantissaAt(s, p, Digits)} })

(* ---------------- tokenize ---------------------------------------------- *)

\* the return of tokenize on an error: -1, the tokens written before it and the
\* message printed on stderr
TokenizeError(toks, msg) == [count |-> -1, tokens |-> toks, err |-> msg]

ErrTooManyTokens == "Expression too complex (too many tokens)."

ErrUnaryTooMany == "Expression too complex (unary op)."

ErrIdentifierTooLong == "Identifier too long"

ErrUnknownIdentifier == "Unknown identifier"

ErrInvalidChar == "Invalid character in expression"

\* the resolution as it would be if an unknown identifier read as the number 0
ResolveIdentifierDefaultZero(identifier, vs, lr) ==
    IF identifier \in ConstantNames
    THEN NumberToken(Const(ConstantSymbol(identifier)), 0)
    ELSE IF identifier = ANS THEN NumberToken(lr, 0)
    ELSE IF FunctionOf(identifier) # "FUNC_INVALID"
    THEN FunctionToken(FunctionOf(identifier))
    ELSE IF find_variable(vs, identifier) >= 0
    THEN NumberToken(vs[find_variable(vs, identifier) + 1].value, 0)
    ELSE NumberToken(Num(0), 0)

\* the resolution as it would be if the variable store were looked up first
ResolveIdentifierStoreFirst(identifier, vs, lr) ==
    IF find_variable(vs, identifier) >= 0
    THEN NumberToken(vs[find_variable(vs, identifier) + 1].value, 0)
    ELSE IF identifier \in ConstantNames
    THEN NumberToken(Const(ConstantSymbol(identifier)), 0)
    ELSE IF identifier = ANS THEN NumberToken(lr, 0)
    ELSE IF FunctionOf(identifier) # "FUNC_INVALID"
    THEN FunctionToken(FunctionOf(identifier))
    ELSE Token("", 0, Num(0), "", "", <<>>)

\* the token an identifier that is not followed by '=' resolves to on store vs
\* with last result lr: a constant, ans, a function, a variable, in this order;
\* type "" when the identifier is unknown
ResolveIdentifier(identifier, vs, lr) ==
    IF identifier \in ConstantNames
    THEN NumberToken(Const(ConstantSymbol(identifier)), 0)
    ELSE IF identifier = ANS THEN NumberToken(lr, 0)
    ELSE IF FunctionOf(identifier) # "FUNC_INVALID"
    THEN FunctionToken(FunctionOf(identifier))
    ELSE IF find_variable(vs, identifier) >= 0
    THEN NumberToken(vs[find_variable(vs, identifier) + 1].value, 0)
    ELSE Token("", 0, Num(0), "", "", <<>>)

\* the tokenizer between two tokens: the scan pointer p, the tokens written so
\* far, expecting_operand, and whether the scan has ended (with err if it failed)
Scan(p, toks, expecting_operand) ==
    [p |-> p, toks |-> toks, expecting_operand |-> expecting_operand,
     done |-> FALSE, err |-> ""]

ScanEnd(toks, err) ==
    [p |-> 0, toks |-> toks, expecting_operand |-> 0, done |-> TRUE, err |-> err]

\* the check of the token limit as it would be if it let one more token in
TokenLimitExceeded(token_count, max_tokens) == token_count > max_tokens

\* token_count >= max_tokens: no room for another token
TokenLimitReached(token_count, max_tokens) == token_count >= max_tokens

\* one pass of the while loop of tokenize from scan state st
TokenizeStep(st, s, max_tokens, vs, lr) ==
    LET p == SkipWhile(s, st.p, Whitespace)
        ch == At(s, p)
        toks == st.toks
        token_count == Len(toks)
    IN
    IF ch = "" THEN ScanEnd(toks, "")
    ELSE IF TokenLimitReached(token_count, max_tokens) THEN ScanEnd(toks, ErrTooManyTokens)
    ELSE IF isalpha(ch) \/ ch = "_"
    THEN LET e == SkipWhile(s, p, IdentifierChars)
             identifier == SubSeq(s, p, e - 1)
             next_char == SkipWhile(s, e, Whitespace)
             tok == ResolveIdentifier(identifier, vs, lr)
         IN IF e - p >= MAX_IDENTIFIER_LEN THEN ScanEnd(toks, ErrIdentifierTooLong)
            ELSE IF At(s, next_char) = "="
            THEN Scan(next_char + 1, Append(toks, AssignmentToken(identifier)), 1)
            ELSE IF tok.type = "" THEN ScanEnd(toks, ErrUnknownIdentifier)
            ELSE Scan(e, Append(toks, tok), IF tok.type = "TOKEN_NUMBER" THEN 0 ELSE 1)
    ELSE IF isdigit(ch) \/ (ch = "." /\ isdigit(At(s, p + 1)))
    THEN LET num == strtod(s, p)
             pct == IF At(s, num.end) = "%" THEN 1 ELSE 0
         IN Scan(num.end + pct, Append(toks, NumberToken(num.value, pct)), 0)
    ELSE IF ch \in OperatorChars
    THEN IF ch \in {"-", "+"} /\ st.expecting_operand = 1
         THEN IF TokenLimitReached(token_count + 1, max_tokens)
              THEN ScanEnd(Append(toks, NumberToken(Num(0), 0)), ErrUnaryTooMany)
              ELSE Scan(p + 1,
                        toks \o <<NumberToken(Num(0), 0), OperatorToken(char_to_op(ch))>>,
                        1)
         ELSE Scan(p + 1, Append(toks, OperatorToken(char_to_op(ch))), 1)
    ELSE IF ch = "("
    THEN Scan(p + 1, Append(toks, LParenToken), 1)
    ELSE IF ch = ")"
    THEN Scan(p + 1, Append(toks, RParenToken), 0)
    ELSE ScanEnd(toks, ErrInvalidChar)

\* the while loop of tokenize: passes until the end of input or an error
RECURSIVE TokenizeFrom(_, _, _, _, _)
TokenizeFrom(st, s, max_tokens, vs, lr) ==
    IF st.done THEN st
    ELSE TokenizeFrom(TokenizeStep(st, s, max_tokens, vs, lr), s, max_tokens, vs, lr)

\* tokenize(input, tokens, max_tokens) reading the store vs and last result lr:
\* the returned count (-1 on error), the tokens written and the error printed
tokenize(s, max_tokens, vs, lr) ==
    LET st == TokenizeFrom(Scan(1, <<>>, 1), s, max_tokens, vs, lr)
    IN IF st.err # "" THEN TokenizeError(st.toks, st.err)
       ELSE [count |-> Len(st.toks), tokens |-> st.toks, err |-> ""]

(* ---------------- shunting_yard ----------------------------------------- *)

\* precedence as it would be with '%' ranked with '+' and '-'
precedence_mod_additive(op) ==
    CASE op \in {"OP_ADD", "OP_SUB", "OP_MOD"} -> 1
      [] op \in {"OP_MUL", "OP_DIV"} -> 2
      [] op = "OP_POW" -> 3
      [] OTHER -> 0

precedence(op) ==
    CASE op \in {"OP_ADD", "OP_SUB"} -> 1
      [] op \in {"OP_MUL", "OP_DIV", "OP_MOD"} -> 2
      [] op = "OP_POW" -> 3
      [] OTHER -> 0

\* is_left_associative as it would be without the exception for '^'
is_left_associative_always(op) == TRUE

is_left_associative(op) == op # "OP_POW"

\* the condition of the pop loop of case TOKEN_OPERATOR: operator op, about to
\* be pushed, first sends the operator top of the stack to the output
PopsBefore(op, top) ==
    \/ is_left_associative(op) /\ precedence(op) <= precedence(top)
    \/ ~is_left_associative(op) /\ precedence(op) < precedence(top)

\* return -1 after a message: the array output keeps the tokens written to it
ShuntError(output, msg) == [count |-> -1, output |-> output, err |-> msg]

ErrOutputOverflowNumber == "Output queue overflow during parsing."

ErrOutputOverflowOperator == "Output queue overflow (operator pop)."

ErrOutputOverflowRParen == "Output queue overflow (right paren pop)."

ErrOutputOverflowFunction == "Output queue overflow (function pop)."

ErrOutputOverflowFinal == "Output queue overflow (final pop)."

ErrStackOverflowFunction == "Operator stack overflow (function)."

ErrStackOverflowOperator == "Operator stack overflow (operator push)."

ErrStackOverflowLParen == "Operator stack overflow (left paren)."

\* the messages of a full output queue and of a full operator stack
ErrOutputOverflow ==
    { ErrOutputOverflowNumber, ErrOutputOverflowOperator, ErrOutputOverflowRParen,
      ErrOutputOverflowFunction, ErrOutputOverflowFinal }

ErrStackOverflow ==
    { ErrStackOverflowFunction, ErrStackOverflowOperator, ErrStackOverflowLParen }

ErrExtraRParen == "Mismatched parentheses (extra right parenthesis?)."

ErrExtraLParen == "Mismatched parentheses (extra left parenthesis?)."

ErrAssignmentToken == "Assignment token found in shunting yard."

ErrVariableToken == "Variable token found in shunting yard."

Top(stack) == stack[Len(stack)]

Pop(stack) == SubSeq(stack, 1, Len(stack) - 1)

\* the pop loop of case TOKEN_OPERATOR
RECURSIVE PopOperators(_, _, _, _)
PopOperators(token, op_stack, output, max_output) ==
    IF /\ Len(op_stack) > 0
       /\ Top(op_stack).type = "TOKEN_OPERATOR"
       /\ PopsBefore(token.op, Top(op_stack).op)
    THEN IF Len(output) >= max_output
         THEN [overflow |-> TRUE, op_stack |-> op_stack, output |-> output]
         ELSE PopOperators(token, Pop(op_stack), Append(output, Top(op_stack)), max_output)
    ELSE [overflow |-> FALSE, op_stack |-> op_stack, output |-> output]

\* the pop loop of case TOKEN_RPAREN as it would be if a function stopped it too
RECURSIVE PopToLParenOrFunction(_, _, _)
PopToLParenOrFunction(op_stack, output, max_output) ==
    IF Len(op_stack) > 0 /\ Top(op_stack).type \notin {"TOKEN_LPAREN", "TOKEN_FUNCTION"}
    THEN IF Len(output) >= max_output
         THEN [overflow |-> TRUE, op_stack |-> op_stack, output |-> output]
         ELSE PopToLParenOrFunction(Pop(op_stack), Append(output, Top(op_stack)), max_output)
    ELSE [overflow |-> FALSE, op_stack |-> op_stack, output |-> output]

\* the pop loop of case TOKEN_RPAREN as it would be if it discarded what it pops
RECURSIVE PopToLParenDiscarding(_, _, _)
PopToLParenDiscarding(op_stack, output, max_output) ==
    IF Len(op_stack) > 0 /\ Top(op_stack).type # "TOKEN_LPAREN"
    THEN PopToLParenDiscarding(Pop(op_stack), output, max_output)
    ELSE [overflow |-> FALSE, op_stack |-> op_stack, output |-> output]

\* the pop loop of case TOKEN_RPAREN: down to the nearest left parenthesis
RECURSIVE PopToLParen(_, _, _)
PopToLParen(op_stack, output, max_output) ==
    IF Len(op_stack) > 0 /\ Top(op_stack).type # "TOKEN_LPAREN"
    THEN IF Len(output) >= max_output
         THEN [overflow |-> TRUE, op_stack |-> op_stack, output |-> output]
         ELSE PopToLParen(Pop(op_stack), Append(output, Top(op_stack)), max_output)
    ELSE [overflow |-> FALSE, op_stack |-> op_stack, output |-> output]

\* the converter between two tokens: the index i (from 1) of the next token, the
\* operator stack, the output queue, and whether it has ended (with err if it failed)
Shunt(i, op_stack, output) ==
    [i |-> i, op_stack |-> op_stack, output |-> output, done |-> FALSE, err |-> ""]

ShuntEnd(output, err) ==
    [i |-> 0, op_stack |-> <<>>, output |-> output, done |-> TRUE, err |-> err]

\* the case as it would be if the converter passed over an assignment token
ShuntAssignmentSkipped(st) == Shunt(st.i + 1, st.op_stack, st.output)

\* case TOKEN_ASSIGNMENT: the conversion ends with an error
ShuntAssignment(st) == ShuntEnd(st.output, ErrAssignmentToken)

\* one pass of the for loop of shunting_yard, or of the while loop that follows
\* it once the tokens are used up
ShuntStep(st, toks, token_count, max_output) ==
    LET i == st.i
        op_stack == st.op_stack
        output == st.output
        token == toks[i]
    IN
    IF i > token_count
    THEN IF Len(op_stack) = 0 THEN ShuntEnd(output, "")
         ELSE IF Top(op_stack).type = "TOKEN_LPAREN" THEN ShuntEnd(output, ErrExtraLParen)
         ELSE IF Len(output) >= max_output THEN ShuntEnd(output, ErrOutputOverflowFinal)
         ELSE Shunt(i, Pop(op_stack), Append(output, Top(op_stack)))
    ELSE
    CASE token.type = "TOKEN_NUMBER" ->
           IF Len(output) >= max_output THEN ShuntEnd(output, ErrOutputOverflowNumber)
           ELSE Shunt(i + 1, op_stack, Append(output, token))
      [] token.type = "TOKEN_FUNCTION" ->
           IF Len(op_stack) >= MAX_TOKENS THEN ShuntEnd(output, ErrStackOverflowFunction)
           ELSE Shunt(i + 1, Append(op_stack, token), output)
      [] token.type = "TOKEN_OPERATOR" ->
           LET r == PopOperators(token, op_stack, output, max_output)
           IN IF r.overflow THEN ShuntEnd(r.output, ErrOutputOverflowOperator)
              ELSE IF Len(r.op_stack) >= MAX_TOKENS
              THEN ShuntEnd(r.output, ErrStackOverflowOperator)
              ELSE Shunt(i + 1, Append(r.op_stack, token), r.output)
      [] token.type = "TOKEN_LPAREN" ->
           IF Len(op_stack) >= MAX_TOKENS THEN ShuntEnd(output, ErrStackOverflowLParen)
           ELSE Shunt(i + 1, Append(op_stack, token), output)
      [] token.type = "TOKEN_RPAREN" ->
           LET r == PopToLParen(op_stack, output, max_output)
               rest == Pop(r.op_stack)
           IN IF r.overflow THEN ShuntEnd(r.output, ErrOutputOverflowRParen)
              ELSE IF Len(r.op_stack) = 0 THEN ShuntEnd(r.output, ErrExtraRParen)
              ELSE IF Len(rest) > 0 /\ Top(rest).type = "TOKEN_FUNCTION"
              THEN IF Len(r.output) >= max_output
                   THEN ShuntEnd(r.output, ErrOutputOverflowFunction)
                   ELSE Shunt(i + 1, Pop(rest), Append(r.output, Top(rest)))
              ELSE Shunt(i + 1, rest, r.output)
      [] token.type = "TOKEN_ASSIGNMENT" -> ShuntAssignment(st)
      [] token.type = "TOKEN_VARIABLE" -> ShuntEnd(output, ErrVariableToken)
      \* the switch has no default case
      [] OTHER -> Shunt(i + 1, op_stack, output)

\* the loops of shunting_yard: passes until the stack is empty or an error
RECURSIVE ShuntFrom(_, _, _, _)
ShuntFrom(st, toks, token_count, max_output) ==
    IF st.done THEN st
    ELSE ShuntFrom(ShuntStep(st, toks, token_count, max_output), toks, token_count, max_output)

\* shunting_yard(tokens, token_count, output, max_output): the output count
\* (-1 on error), the output queue and the message printed
shunting_yard(toks, token_count, max_output) ==
    LET st == ShuntFrom(Shunt(1, <<>>, <<>>), toks, token_count, max_output)
    IN IF st.err # "" THEN ShuntError(st.output, st.err)
       ELSE [count |-> Len(st.output), output |-> st.output, err |-> ""]

(* ---------------- evaluate_postfix --------------------------------------- *)

\* an element of the evaluation stack
Value(num, pct) == [num |-> num, is_percentage |-> pct]

\* the outcome of a step or of the whole evaluation: the double (NAN on error),
\* the message printed with an error, and whether the model lost track of it
Outcome(value, err) ==
    Only({ [value |-> v, err |-> err, oom |-> v.k = "oom"] : v \in {value} })

ErrInsufficientOperands == "Insufficient operands for operator"

ErrDivisionByZero == "Division by zero."

ErrModuloByZero == "Modulo by zero."

ErrUnknownOperator == "Unknown operator type."

ErrInsufficientArguments == "Insufficient arguments for function."

ErrArcsinRange == "Arcsin argument out of range [-1, 1]."

ErrArccosRange == "Arccos argument out of range [-1, 1]."

ErrLogDomain == "Logarithm requires positive argument."

ErrSqrtDomain == "Square root requires non-negative argument."

\* the four messages of the domain checks
ErrDomain == { ErrArcsinRange, ErrArccosRange, ErrLogDomain, ErrSqrtDomain }

\* the message of the domain check of function func
DomainError(func) ==
    CASE func = "FUNC_ASIN" -> ErrArcsinRange
      [] func = "FUNC_ACOS" -> ErrArccosRange
      [] func = "FUNC_LOG" -> ErrLogDomain
      [] func = "FUNC_SQRT" -> ErrSqrtDomain

ErrUnknownFunction == "Unknown function type."

ErrEvalStackOverflow == "Evaluation stack overflow."

ErrEvalStackOverflowOperation == "Evaluation stack overflow after operation."

ErrEvalStackOverflowFunction == "Evaluation stack overflow after function."

WarnPowerPercentage == "Percentage ignored in power operation."

WarnModuloPercentage == "Percentage ignored in modulo operation."

ErrStructure == "Invalid expression structure"

\* a value of the stack the model can compute with: a rational or NaN
Tracked(v) == v.k \in {"fin", "nan"}

\* the normalisation as it would be if it forgot the percentage flag
NormalisedFaceValue(val) == val.num

\* value.num, or value.num / 100.0 when the value carries the percentage flag
Normalised(val) == IF val.is_percentage = 1 THEN Percent(val.num) ELSE val.num

\* case OP_DIV: both operands normalised, the divisor checked after that
Divide(op_a, op_b) ==
    IF IsZero(Normalised(op_b)) THEN Outcome(NAN, ErrDivisionByZero)
    ELSE Outcome(Div(Normalised(op_a), Normalised(op_b)), "")

\* case OP_MOD as it would be without the check of the right operand
ModuloUnchecked(op_a, op_b) == Outcome(fmod(op_a.num, op_b.num), "")

\* case OP_MOD: fmod of the operands as they are, the right one checked first
Modulo(op_a, op_b) ==
    IF IsZero(op_b.num) THEN Outcome(NAN, ErrModuloByZero)
    ELSE Outcome(fmod(op_a.num, op_b.num), "")

\* op_b.num / 100.0 * op_a.num as it would be if the percentage stood for itself
PercentOfOne(op_a, op_b) == Percent(op_b.num)

\* op_b.num / 100.0 * op_a.num of cases OP_ADD and OP_SUB: op_b percent of op_a
PercentOf(op_a, op_b) == Mul(Percent(op_b.num), op_a.num)

\* the warning of cases OP_POW and OP_MOD for an operand that carries the tag
Warning(op, op_a, op_b) ==
    IF op_a.is_percentage = 1 \/ op_b.is_percentage = 1
    THEN IF op = "OP_POW" THEN WarnPowerPercentage
         ELSE IF op = "OP_MOD" THEN WarnModuloPercentage
         ELSE ""
    ELSE ""

\* INFINITY, the value of the constant inf
INFINITY == Const("inf")

\* the switch on token.value.op: the result of operator op on op_a and op_b;
\* of the operations on INFINITY only inf - inf is followed
ApplyOperator(op, op_a, op_b) ==
    IF /\ op = "OP_SUB"
       /\ op_b.is_percentage = 0
       /\ op_a.num = INFINITY
       /\ op_b.num = INFINITY
    THEN Outcome(Sub(op_a.num, op_b.num), "")
    ELSE IF ~(Tracked(op_a.num) /\ Tracked(op_b.num)) THEN Outcome(Oom, "")
    ELSE
    CASE op = "OP_ADD" ->
           Outcome(IF op_b.is_percentage = 1
                   THEN Add(op_a.num, PercentOf(op_a, op_b))
                   ELSE Add(op_a.num, op_b.num), "")
      [] op = "OP_SUB" ->
           Outcome(IF op_b.is_percentage = 1
                   THEN Sub(op_a.num, PercentOf(op_a, op_b))
                   ELSE Sub(op_a.num, op_b.num), "")
      [] op = "OP_MUL" -> Outcome(Mul(Normalised(op_a), Normalised(op_b)), "")
      [] op = "OP_DIV" -> Divide(op_a, op_b)
      [] op = "OP_POW" -> Outcome(pow(op_a.num, op_b.num), "")
      [] op = "OP_MOD" -> Modulo(op_a, op_b)
      [] OTHER -> Outcome(NAN, ErrUnknownOperator)

\* the domain checks of the switch on token.value.func
OutOfDomain(func, arg_val) ==
    \/ func \in {"FUNC_ASIN", "FUNC_ACOS"} /\ (Less(arg_val, Num(-1)) \/ Less(Num(1), arg_val))
    \/ func = "FUNC_LOG" /\ Leq(arg_val, Num(0))
    \/ func = "FUNC_SQRT" /\ Less(arg_val, Num(0))

\* the switch on token.value.func for the argument INFINITY, as math.h defines
\* it: above the range of asin and acos, NaN from sin, cos and tan, pi/2 from
\* atan, INFINITY from the other functions
ApplyToInfinity(func) ==
    IF func \in {"FUNC_ASIN", "FUNC_ACOS"} THEN Outcome(NAN, DomainError(func))
    ELSE IF func \in {"FUNC_SIN", "FUNC_COS", "FUNC_TAN"} THEN Outcome(NAN, "")
    ELSE IF func = "FUNC_ATAN" THEN Outcome(Sym("atan", 1, 0), "")
    ELSE IF func \in {"FUNC_LOG", "FUNC_SQRT", "FUNC_EXP", "FUNC_ABS", "FUNC_FLOOR",
                      "FUNC_CEIL", "FUNC_ROUND"} THEN Outcome(INFINITY, "")
    ELSE Outcome(NAN, ErrUnknownFunction)

\* the switch on token.value.func: the result of function func on argument arg
ApplyFunction(func, arg) ==
    LET arg_val == Normalised(arg) IN
    IF arg_val = INFINITY THEN ApplyToInfinity(func)
    ELSE IF ~Tracked(arg_val) THEN Outcome(Oom, "")
    ELSE IF OutOfDomain(func, arg_val) THEN Outcome(NAN, DomainError(func))
    ELSE
    CASE func = "FUNC_SIN" -> Outcome(Transc("sin", arg_val, Num(0), Num(0)), "")
      [] func = "FUNC_COS" -> Outcome(Transc("cos", arg_val, Num(0), Num(1)), "")
      [] func = "FUNC_TAN" -> Outcome(Transc("tan", arg_val, Num(0), Num(0)), "")
      [] func = "FUNC_ASIN" -> Outcome(Transc("asin", arg_val, Num(0), Num(0)), "")
      [] func = "FUNC_ACOS" -> Outcome(Transc("acos", arg_val, Num(1), Num(0)), "")
      [] func = "FUNC_ATAN" -> Outcome(Transc("atan", arg_val, Num(0), Num(0)), "")
      [] func = "FUNC_LOG" -> Outcome(Transc("log", arg_val, Num(1), Num(0)), "")
      [] func = "FUNC_SQRT" -> Outcome(sqrt(arg_val), "")
      [] func = "FUNC_EXP" -> Outcome(Transc("exp", arg_val, Num(0), Num(1)), "")
      [] func = "FUNC_ABS" -> Outcome(fabs(arg_val), "")
      [] func = "FUNC_FLOOR" -> Outcome(floor(arg_val), "")
      [] func = "FUNC_CEIL" -> Outcome(ceil(arg_val), "")
      [] func = "FUNC_ROUND" -> Outcome(round(arg_val), "")
      [] OTHER -> Outcome(NAN, ErrUnknownFunction)

\* the check of the stack after the last token as it would be if it asked
\* for a value on the stack, not for one value only
HoldsSomeResult(stack) == Len(stack) >= 1

\* top == 0 after the last token: the stack holds the result and nothing else
HoldsResult(stack) == Len(stack) = 1

\* the return of the last stack value as it would be with its tag left on
FinalValueAsPushed(final_val) == final_val.num

\* the return of the last stack value: a hundredth of it if it carries the tag
FinalValue(final_val) ==
    IF final_val.is_percentage = 1 THEN Percent(final_val.num) ELSE final_val.num

\* the value pushed as it would be if it kept the flag of the operand popped
ResultValueKeepsFlag(res, popped) == Value(res, popped.is_percentage)

\* the value pushed for the result of an operator or function that popped
\* popped: (Value){.num = result, .is_percentage = 0}
ResultValue(res, popped) == Value(res, 0)

\* the evaluator between two tokens: the index i (from 1) of the next token, the
\* value stack and what the passes so far have written to stderr; out is the
\* outcome once the evaluation has ended
Eval(i, stack, printed) ==
    [i |-> i, stack |-> stack, printed |-> printed, done |-> FALSE, out |-> Outcome(NAN, "")]

EvalEnd(out) == [i |-> 0, stack |-> <<>>, printed |-> out.err, done |-> TRUE, out |-> out]

\* one pass of the for loop of evaluate_postfix, or the check that follows it
EvaluateStep(st, pf, count) ==
    LET i == st.i
        stack == st.stack
        printed == st.printed
        token == pf[i]
    IN
    IF i > count
    THEN IF ~HoldsResult(stack) THEN EvalEnd(Outcome(NAN, Join(printed, ErrStructure)))
         ELSE EvalEnd(Outcome(FinalValue(stack[1]), printed))
    ELSE
    CASE token.type = "TOKEN_NUMBER" ->
           IF Len(stack) >= MAX_TOKENS
           THEN EvalEnd(Outcome(NAN, Join(printed, ErrEvalStackOverflow)))
           ELSE Eval(i + 1, Append(stack, Value(token.number, token.is_percentage)), printed)
      [] token.type = "TOKEN_OPERATOR" ->
           IF Len(stack) < 2
           THEN EvalEnd(Outcome(NAN, Join(printed, ErrInsufficientOperands)))
           ELSE LET op_b == stack[Len(stack)]
                    op_a == stack[Len(stack) - 1]
                    r == ApplyOperator(token.op, op_a, op_b)
                    warned == Join(printed, Warning(token.op, op_a, op_b))
                IN IF r.err # "" \/ r.oom THEN EvalEnd(Outcome(r.value, Join(warned, r.err)))
                   ELSE IF Len(stack) - 2 >= MAX_TOKENS
                   THEN EvalEnd(Outcome(NAN, Join(warned, ErrEvalStackOverflowOperation)))
                   ELSE Eval(i + 1,
                             Append(SubSeq(stack, 1, Len(stack) - 2), ResultValue(r.value, op_b)),
                             warned)
      [] token.type = "TOKEN_FUNCTION" ->
           IF Len(stack) < 1
           THEN EvalEnd(Outcome(NAN, Join(printed, ErrInsufficientArguments)))
           ELSE LET r == ApplyFunction(token.func, stack[Len(stack)])
                IN IF r.err # "" \/ r.oom THEN EvalEnd(Outcome(r.value, Join(printed, r.err)))
                   ELSE IF Len(stack) - 1 >= MAX_TOKENS
                   THEN EvalEnd(Outcome(NAN, Join(printed, ErrEvalStackOverflowFunction)))
                   ELSE Eval(i + 1, Append(Pop(stack), ResultValue(r.value, stack[Len(stack)])),
                             printed)
      [] OTHER -> Eval(i + 1, stack, printed)

\* the for loop of evaluate_postfix: passes until the tokens are used up or an error
RECURSIVE EvaluateFrom(_, _, _)
EvaluateFrom(st, pf, count) ==
    IF st.done THEN st.out ELSE EvaluateFrom(EvaluateStep(st, pf, count), pf, count)

\* evaluate_postfix(postfix, count): the double returned, NAN on error
evaluate_postfix(pf, count) == EvaluateFrom(Eval(1, <<>>, ""), pf, count)

(* ---------------- evaluate_expression, handle_assignment ----------------- *)

ErrMissingExpression == "Missing expression after '=' for assignment"

\* the return of evaluate_expression or handle_assignment (NAN on failure),
\* the message printed, and the globals after the call
CycleResult(ret, err, vs, lr) ==
    [ret |-> ret, err |-> err, oom |-> ret.k = "oom", variables |-> vs, last_result |-> lr]

\* evaluate_expression as it would be without its last_result = result
evaluate_expression_keeps_last_result(s, vs, lr) ==
    Only({ IF t.count < 0 THEN CycleResult(NAN, t.err, vs, lr)
           ELSE IF t.count = 0 THEN CycleResult(NAN, "", vs, lr)
           ELSE Only({ IF sy.count < 0 THEN CycleResult(NAN, sy.err, vs, lr)
                       ELSE Only({ IF r.oom THEN CycleResult(Oom, r.err, vs, lr)
                                   ELSE IF ~isnan(r.value)
                                   THEN Only({ CycleResult(r.value, Join(r.err, ans.err),
                                                           ans.variables, lr)
                                               : ans \in {set_variable(vs, ANS, r.value)} })
                                   ELSE CycleResult(NAN, r.err, vs, lr)
                                   : r \in {evaluate_postfix(sy.output, sy.count)} })
                       : sy \in {shunting_yard(t.tokens, t.count, MAX_TOKENS)} })
           : t \in {tokenize(s, MAX_TOKENS, vs, lr)} })

\* evaluate_expression as it would be if it added an entry ans on every success
\* instead of handing the result to set_variable
evaluate_expression_appends_ans(s, vs, lr) ==
    Only({ IF t.count < 0 THEN CycleResult(NAN, t.err, vs, lr)
           ELSE IF t.count = 0 THEN CycleResult(NAN, "", vs, lr)
           ELSE Only({ IF sy.count < 0 THEN CycleResult(NAN, sy.err, vs, lr)
                       ELSE Only({ IF r.oom THEN CycleResult(Oom, r.err, vs, lr)
                                   ELSE IF ~isnan(r.value)
                                   THEN CycleResult(r.value, r.err,
                                            Append(vs, [name |-> ANS, value |-> r.value]),
                                            r.value)
                                   ELSE CycleResult(NAN, r.err, vs, lr)
                                   : r \in {evaluate_postfix(sy.output, sy.count)} })
                       : sy \in {shunting_yard(t.tokens, t.count, MAX_TOKENS)} })
           : t \in {tokenize(s, MAX_TOKENS, vs, lr)} })

\* evaluate_expression(input) on store vs and last result lr; t, sy and r are
\* token_count/tokens, postfix_count/postfix and result of the three calls, ans
\* the closing set_variable("ans", result); err is what they print, the
\* warnings of a successful evaluation and the message of set_variable included
evaluate_expression(s, vs, lr) ==
    Only({ IF t.count < 0 THEN CycleResult(NAN, t.err, vs, lr)
           ELSE IF t.count = 0 THEN CycleResult(NAN, "", vs, lr)
           ELSE Only({ IF sy.count < 0 THEN CycleResult(NAN, sy.err, vs, lr)
                       ELSE Only({ IF r.oom THEN CycleResult(Oom, r.err, vs, lr)
                                   ELSE IF ~isnan(r.value)
                                   THEN Only({ CycleResult(r.value, Join(r.err, ans.err),
                                                           ans.variables, r.value)
                                               : ans \in {set_variable(vs, ANS, r.value)} })
                                   ELSE CycleResult(NAN, r.err, vs, lr)
                                   : r \in {evaluate_postfix(sy.output, sy.count)} })
                       : sy \in {shunting_yard(t.tokens, t.count, MAX_TOKENS)} })
           : t \in {tokenize(s, MAX_TOKENS, vs, lr)} })

\* handle_assignment as it would be if it updated last_result before the store
\* accepted the variable
StoreResultCommitsFirst(var_name, value, vs, lr) ==
    Only({ IF stored.ret < 0 THEN CycleResult(NAN, stored.err, vs, value)
           ELSE Only({ CycleResult(value, ans.err, ans.variables, value)
                       : ans \in {set_variable(stored.variables, ANS, value)} })
           : stored \in {set_variable(vs, var_name, value)} })

\* the tail of handle_assignment: store value under var_name, then as ans; the
\* messages are those of the two calls of set_variable
StoreResult(var_name, value, vs, lr) ==
    Only({ IF stored.ret < 0 THEN CycleResult(NAN, stored.err, vs, lr)
           ELSE Only({ CycleResult(value, ans.err, ans.variables, value)
                       : ans \in {set_variable(stored.variables, ANS, value)} })
           : stored \in {set_variable(vs, var_name, value)} })

\* handle_assignment(var_name, expression) on store vs and last result lr
handle_assignment(var_name, expression, vs, lr) ==
    Only({ IF t.count < 0 THEN CycleResult(NAN, t.err, vs, lr)
           ELSE IF t.count = 0 THEN CycleResult(NAN, ErrMissingExpression, vs, lr)
           ELSE Only({ IF sy.count < 0 THEN CycleResult(NAN, sy.err, vs, lr)
                       ELSE Only({ IF r.oom THEN CycleResult(Oom, r.err, vs, lr)
                                   ELSE IF ~isnan(r.value)
                                   THEN Only({ [sr EXCEPT !.err = Join(r.err, sr.err)]
                                               : sr \in {StoreResult(var_name, r.value, vs, lr)} })
                                   ELSE CycleResult(NAN, r.err, vs, lr)
                                   : r \in {evaluate_postfix(sy.output, sy.count)} })
                       : sy \in {shunting_yard(t.tokens, t.count, MAX_TOKENS)} })
           : t \in {tokenize(expression, MAX_TOKENS, vs, lr)} })

(* ---------------- process_command --------------------------------------- *)

\* the last position of s, at or before p, that holds no whitespace; 0 if none
RECURSIVE TrimEnd(_, _)
TrimEnd(s, p) == IF p >= 1 /\ isspace(s[p]) THEN TrimEnd(s, p - 1) ELSE p

\* trimmed_input: s without leading and trailing whitespace, cut to the buffer
Trimmed(s) ==
    LET start == SkipWhile(s, 1, Whitespace)
        cut == IF Len(s) - start + 1 > NMRI_MAX_INPUT - 1 THEN start + NMRI_MAX_INPUT - 2
               ELSE Len(s)
    IN SubSeq(s, start, TrimEnd(s, cut))

\* strncmp(s, prefix, Len(prefix)) == 0
HasPrefix(s, prefix) == Len(s) >= Len(prefix) /\ SubSeq(s, 1, Len(prefix)) = prefix

CmdHelp == <<"h", "e", "l", "p">>

CmdExit == <<"e", "x", "i", "t">>

CmdQuit == <<"q", "u", "i", "t">>

CmdMPlus == <<"m", "+">>

CmdMMinus == <<"m", "-">>

CmdMr == <<"m", "r">>

CmdMc == <<"m", "c">>

CmdStore == <<"s", "t", "o", "r", "e", " ">>

CmdLog == <<"l", "o", "g", " ">>

\* the commands that only print: clear, cls, history, variables, vars, memory, mem
PrintingCommands ==
    { CmdHelp, <<"c", "l", "e", "a", "r">>, <<"c", "l", "s">>,
      <<"h", "i", "s", "t", "o", "r", "y">>,
      <<"v", "a", "r", "i", "a", "b", "l", "e", "s">>, <<"v", "a", "r", "s">>,
      <<"m", "e", "m", "o", "r", "y">>, <<"m", "e", "m">> }

ErrStoreMissingName == "Missing variable name for 'store' command."

ErrStoreInvalidName == "Invalid variable name for 'store'."

ErrStoreInvalidChar == "Invalid character in variable name for 'store'."

ErrStoreTooLong == "Variable name too long or invalid for 'store'."

\* the return of process_command (1 handled, -1 exit, 0 not a command), the
\* message printed with an error, and the globals after the call
CommandResult(ret, err, vs, lr, mem) ==
    [ret |-> ret, err |-> err, variables |-> vs, last_result |-> lr, memory |-> mem]

\* the branch of process_command for "store <n>" on the trimmed input t
StoreCommand(t, vs, lr, mem) ==
    LET var_name == SkipWhile(t, 7, Whitespace)
        stop == SkipWhile(t, var_name, IdentifierChars)
        limit == var_name + MAX_IDENTIFIER_LEN - 1
        name_end == IF stop > limit THEN limit ELSE stop
        name_buf == SubSeq(t, var_name, name_end - 1)
        ch == At(t, name_end)
    IN IF At(t, var_name) = "" THEN CommandResult(1, ErrStoreMissingName, vs, lr, mem)
       ELSE IF ~(isalpha(At(t, var_name)) \/ At(t, var_name) = "_")
       THEN CommandResult(1, ErrStoreInvalidName, vs, lr, mem)
       ELSE IF name_end < limit /\ ch # "" /\ ~isspace(ch)
       THEN CommandResult(1, ErrStoreInvalidChar, vs, lr, mem)
       ELSE IF ch # "" /\ ~isspace(ch) THEN CommandResult(1, ErrStoreTooLong, vs, lr, mem)
       ELSE LET stored == set_variable(vs, name_buf, lr)
            IN CommandResult(1, stored.err, stored.variables, lr, mem)

ErrUnknownLogSubcommand ==
    "Unknown 'log' subcommand. Use 'on', 'off', 'show', 'file', or 'file <path>'."

\* the subcommands of log; file is also followed by a path
LogSubcommands ==
    { <<"o", "n">>, <<"o", "f", "f">>, <<"s", "h", "o", "w">>, <<"f", "i", "l", "e">> }

\* the branch of process_command for "log <subcommand>" on the trimmed input t.
\* The log file is not followed: it is taken to exist and to open, so that on,
\* show and file write nothing to stderr
LogCommand(t, vs, lr, mem) ==
    LET subcommand == SubSeq(t, SkipWhile(t, 5, Whitespace), Len(t))
    IN IF subcommand \in LogSubcommands \/ HasPrefix(subcommand, <<"f", "i", "l", "e", " ">>)
       THEN CommandResult(1, "", vs, lr, mem)
       ELSE CommandResult(1, ErrUnknownLogSubcommand, vs, lr, mem)

\* "mr" as it would be without its set_variable("ans", last_result)
MemoryRecallKeepsAns(vs, mem) == CommandResult(1, "", vs, mem, mem)

\* the branch as it would be if recalling the memory also cleared it
MemoryRecallClears(vs, mem) ==
    LET ans == set_variable(vs, ANS, mem)
    IN CommandResult(1, ans.err, ans.variables, mem, Num(0))

\* the branch of process_command for "mr": the memory becomes the last result
\* and the value of ans, with the message of set_variable when ans finds no room
MemoryRecall(vs, mem) ==
    LET ans == set_variable(vs, ANS, mem)
    IN CommandResult(1, ans.err, ans.variables, mem, mem)

\* process_command(input) on store vs, last result lr and memory mem
process_command(s, vs, lr, mem) ==
    LET t == Trimmed(s) IN
    IF t \in PrintingCommands THEN CommandResult(1, "", vs, lr, mem)
    ELSE IF t \in {CmdExit, CmdQuit} THEN CommandResult(-1, "", vs, lr, mem)
    ELSE IF t = CmdMPlus THEN CommandResult(1, "", vs, lr, Add(mem, lr))
    ELSE IF t = CmdMMinus THEN CommandResult(1, "", vs, lr, Sub(mem, lr))
    ELSE IF t = CmdMr
    THEN MemoryRecall(vs, mem)
    ELSE IF t = CmdMc THEN CommandResult(1, "", vs, lr, Num(0))
    ELSE IF HasPrefix(t, CmdStore) THEN StoreCommand(t, vs, lr, mem)
    ELSE IF HasPrefix(t, CmdLog) THEN LogCommand(t, vs, lr, mem)
    ELSE CommandResult(0, "", vs, lr, mem)

(* ---------------- main: the interactive loop ---------------------------- *)

\* strchr / strpbrk: the first position of s that holds a character of cs, 0 if none
RECURSIVE FirstOf(_, _, _)
FirstOf(s, cs, p) ==
    IF p > Len(s) THEN 0 ELSE IF s[p] \in cs THEN p ELSE FirstOf(s, cs, p + 1)

\* the line without its leading whitespace
Start(line) == SubSeq(line, SkipWhile(line, 1, Whitespace), Len(line))

equals_pos(start) == FirstOf(start, {"="}, 1)

first_op(start) == FirstOf(start, OperatorChars, 1)

\* the test of main for a potential assignment: an '=' that is not the first
\* character and stands before every operator character
IsPotentialAssignment(start) ==
    /\ equals_pos(start) # 0
    /\ equals_pos(start) # 1
    /\ (first_op(start) = 0 \/ equals_pos(start) < first_op(start))

\* the text before the '=' without the whitespace that ends it
TargetName(start) == SubSeq(start, 1, TrimEnd(start, equals_pos(start) - 1))

\* the text after the '='
expr_start(start) == SubSeq(start, equals_pos(start) + 1, Len(start))

\* the names main refuses as the target of an assignment
ReservedWords == { CmdHelp, CmdExit, <<"p", "i">>, <<"e">>, <<"s", "i", "n">> }

\* valid_name of main before the reserved word check: an identifier
IsIdentifier(var_name) ==
    /\ isalpha(var_name[1]) \/ var_name[1] = "_"
    /\ \A k \in 2..Len(var_name) : isalnum(var_name[k]) \/ var_name[k] = "_"

\* valid_name of main: an identifier that is not a reserved word
valid_name(var_name) == IsIdentifier(var_name) /\ var_name \notin ReservedWords

\* the length check as it would be if it let a name of MAX_IDENTIFIER_LEN
\* characters through
NameLengthOkInclusive(var_name) ==
    Len(var_name) > 0 /\ Len(var_name) <= MAX_IDENTIFIER_LEN

\* name_len > 0 && name_len < MAX_IDENTIFIER_LEN
NameLengthOk(var_name) == Len(var_name) > 0 /\ Len(var_name) < MAX_IDENTIFIER_LEN

ErrReservedName == "Cannot assign to reserved name."

ErrInvalidName == "Invalid variable name for assignment."

ErrNameLength == "Invalid variable name length for assignment."

\* what main prints for a target it refuses: the length message, or for a
\* reserved word the reserved name message followed by the invalid name
\* message, or the invalid name message alone
RejectionMessage(var_name) ==
    IF ~NameLengthOk(var_name) THEN ErrNameLength
    ELSE IF IsIdentifier(var_name) /\ var_name \in ReservedWords
    THEN Join(ErrReservedName, ErrInvalidName)
    ELSE ErrInvalidName

\* what the last handled line did: the line, the branch of the loop taken, the
\* core function called with its target, return and error message
Call(step, line, kind, fn, var_name, ret, err) ==
    [step |-> step, line |-> line, kind |-> kind, fn |-> fn, var_name |-> var_name,
     ret |-> ret, err |-> err]

NoCall == Call(0, <<>>, "none", "none", <<>>, NAN, "")

NoTokens == [count |-> 0, tokens |-> <<>>, err |-> ""]

\* main has not returned
NoExit == "running"

(* ---------------- add_to_history (src/nmri.c:560-586) ------------------- *)

HISTORY_SIZE == 20

\* the history as it would be if a full history refused the new command
add_to_history_full_refuses(history, cmd) ==
    IF Len(cmd) = 0 THEN history
    ELSE IF \/ cmd = <<"h", "i", "s", "t", "o", "r", "y">>
            \/ Len(history) > 0 /\ cmd = history[Len(history)]
    THEN history
    ELSE IF Len(history) = HISTORY_SIZE THEN history
    ELSE Append(history, cmd)

\* add_to_history(cmd): command_history (its length is history_count) after
\* the call; the stored copy holds at most NMRI_MAX_INPUT - 1 characters
add_to_history(history, cmd) ==
    LET shifted == IF Len(history) = HISTORY_SIZE THEN Tail(history) ELSE history
        copy == IF Len(cmd) > NMRI_MAX_INPUT - 1 THEN SubSeq(cmd, 1, NMRI_MAX_INPUT - 1)
                ELSE cmd
    IN
    IF Len(cmd) = 0 THEN history
    ELSE IF \/ cmd = <<"h", "i", "s", "t", "o", "r", "y">>
            \/ Len(history) > 0 /\ cmd = history[Len(history)]
    THEN history
    ELSE Append(shifted, copy)

\* history_count = 0: the command history holds no line
NoHistory == <<>>

\* the variables that only main, add_to_history and the passes of
\* evaluate_postfix change
aside == <<argv, exit_code, command_history, commands, eval_stack, eval_i, eval_err>>

\* the same without the command history and the exit code, which the
\* interactive loop changes
beside == <<argv, commands, eval_stack, eval_i, eval_err>>

\* no arguments, no exit code, no line in the history, no evaluation under
\* way; the log and the output are left aside
NoProcess ==
    /\ argv = <<>>
    /\ exit_code = NoExit
    /\ command_history = NoHistory
    /\ commands = <<>>
    /\ eval_stack = <<>>
    /\ eval_i = 1
    /\ eval_err = ""

NoPostfix == [count |-> 0, output |-> <<>>, err |-> ""]

Pending == [k |-> "pending", n |-> 0, d |-> 1, u |-> 0, name |-> ""]

(* ---------------- the interactive session ------------------------------- *)

DigitChar(i) == <<"0", "1", "2", "3", "4", "5", "6", "7", "8", "9">>[i + 1]

\* the store after main's set_variable("ans", 0.0)
StartupStore == set_variable(<<>>, ANS, Num(0)).variables

\* the name of the i-th variable of a session that fills the store: v01, v02, ...
FillerName(i) == <<"v", DigitChar(i \div 10), DigitChar(i % 10)>>

\* the store after assigning 1 to n such variables (ans follows the last result)
FilledStore(n) ==
    <<[name |-> ANS, value |-> Num(1)]>> \o
    [i \in 1..n |-> [name |-> FillerName(i), value |-> Num(1)]]

\* the line that assigns 1 to the i-th of them
FillerLine(i) == FillerName(i) \o <<" ", "=", " ", "1">>

\* the command history after these n lines: the last HISTORY_SIZE of them
FilledHistory(n) ==
    LET kept == IF n > HISTORY_SIZE THEN HISTORY_SIZE ELSE n
    IN [i \in 1..kept |-> FillerLine(n - kept + i)]

\* the names tried as the target of an assignment or of store
TargetNames ==
    { <<"x">>, <<"c">>, <<"c", "o", "s">>, <<"p", "i">>, ANS, CmdMr, CmdExit, <<"2", "x">> }

\* the texts tried as the right-hand side of an assignment
RhsTexts == { <<"2">>, <<"1", "/", "0">>, <<"x", "+", "1">>, <<>> }

AssignLines == { n \o <<" ", "=", " ">> \o e : n \in TargetNames, e \in RhsTexts }

StoreLines ==
    { CmdStore \o n : n \in { <<"x">>, <<"c">>, <<"c", "o", "s">>, ANS, <<"2", "x">> } }

ExprLines ==
    TargetNames \cup
    { <<"y">>, <<"2", "+", "3">>, <<"1", "/", "0">>, <<"(">>, <<"x", "+", "1">>, <<" ">> }

CommandLines ==
    { CmdMr, CmdMPlus, CmdMMinus, CmdMc, CmdExit, CmdHelp,
      <<"h", "i", "s", "t", "o", "r", "y">>, CmdLog \o <<"f", "o", "o">> }

\* the longest name an entry of the store holds, and a name one character longer
LimitName == [i \in 1..MAX_IDENTIFIER_LEN - 1 |-> "a"]

OverlongName == [i \in 1..MAX_IDENTIFIER_LEN |-> "a"]

\* assignments to these two names and store commands for them
LimitLines ==
    { n \o <<" ", "=", " ", "2">> : n \in { LimitName, OverlongName } }
    \cup { CmdStore \o n : n \in { LimitName, OverlongName } }

\* the lines a user types in the explored sessions
Lines == AssignLines \cup StoreLines \cup ExprLines \cup CommandLines

\* the lines of the sessions the variable store is followed through: assignments
\* of a value and of a failing text to a new, a constant's, the ans and an
\* invalid name, the store commands, the lines with the two longest names, an
\* expression that succeeds and one that fails, memory commands, exit and a
\* blank line
StoreSessionLines ==
    { n \o <<" ", "=", " ">> \o e :
        n \in { <<"x">>, <<"p", "i">>, ANS, <<"2", "x">> },
        e \in { <<"2">>, <<"1", "/", "0">> } }
    \cup StoreLines \cup LimitLines
    \cup { <<"2", "+", "3">>, <<"1", "/", "0">>, CmdMPlus, CmdMr, CmdExit, <<" ">> }

\* the state after startup, or after a session that filled the variable store
\* with the lines v01 = 1, v02 = 1, ...
Init ==
    /\ \/ /\ variables = StartupStore
          /\ last_result = Num(0)
          /\ command_history = NoHistory
       \/ /\ variables = FilledStore(MAX_VARIABLES - 1)
          /\ last_result = Num(1)
          /\ command_history = FilledHistory(MAX_VARIABLES - 1)
    /\ memory = Num(0)
    /\ call = NoCall
    /\ pc = "prompt"
    /\ input = <<>>
    /\ tokens = NoTokens
    /\ postfix = NoPostfix
    /\ result = Pending
    /\ argv = <<>>
    /\ exit_code = NoExit
    /\ commands = <<>>
    /\ eval_stack = <<>>
    /\ eval_i = 1
    /\ eval_err = ""

Prompt == pc = "prompt" /\ call.step < MaxSteps

\* main ignores a line that holds only whitespace: it reaches neither
\* add_to_history nor process_command
EmptyLine(line) ==
    /\ Prompt
    /\ Start(line) = <<>>
    /\ call' = Call(call.step + 1, line, "empty", "none", <<>>, NAN, "")
    /\ UNCHANGED <<variables, last_result, memory, pc, input, tokens, postfix, result>>
    /\ UNCHANGED aside

\* add_to_history(start), the first call of main for a line that is not empty
Remember(start) ==
    command_history' = add_to_history(command_history, start)

\* a line that process_command handles (it returns 1)
Command(line) ==
    /\ Prompt
    /\ Start(line) # <<>>
    /\ Remember(Start(line))
    /\ \E r \in {process_command(Start(line), variables, last_result, memory)} :
          /\ r.ret = 1
          /\ r.memory.k # "oom"
          /\ variables' = r.variables
          /\ last_result' = r.last_result
          /\ memory' = r.memory
          /\ call' = Call(call.step + 1, line, "command", "process_command", <<>>, Num(1),
                          r.err)
    /\ UNCHANGED <<pc, input, tokens, postfix, result, exit_code>>
    /\ UNCHANGED beside

\* exit or quit: process_command returns -1, the loop ends and main returns 0
Exit(line) ==
    /\ Prompt
    /\ Start(line) # <<>>
    /\ process_command(Start(line), variables, last_result, memory).ret = -1
    /\ Remember(Start(line))
    /\ pc' = "exited"
    /\ exit_code' = 0
    /\ call' = Call(call.step + 1, line, "exit", "process_command", <<>>, Num(-1), "")
    /\ UNCHANGED <<variables, last_result, memory, input, tokens, postfix, result>>
    /\ UNCHANGED beside

NotCommand(start) ==
    /\ start # <<>>
    /\ process_command(start, variables, last_result, memory).ret = 0

\* a line main takes for an assignment with an acceptable target: handle_assignment
Assignment(line) ==
    \E start \in {Start(line)} :
    \E var_name \in {TargetName(start)} :
       /\ Prompt
       /\ NotCommand(start)
       /\ IsPotentialAssignment(start)
       /\ NameLengthOk(var_name)
       /\ valid_name(var_name)
       /\ Remember(start)
       /\ \E r \in {handle_assignment(var_name, expr_start(start), variables,
                                       last_result)} :
             /\ ~r.oom
             /\ variables' = r.variables
             /\ last_result' = r.last_result
             /\ call' = Call(call.step + 1, line, "assignment", "handle_assignment",
                             var_name, r.ret, r.err)
       /\ UNCHANGED <<memory, pc, input, tokens, postfix, result, exit_code>>
       /\ UNCHANGED beside

\* a line main takes for an assignment and refuses for its target
RejectedAssignment(line) ==
    \E start \in {Start(line)} :
    \E var_name \in {TargetName(start)} :
       /\ Prompt
       /\ NotCommand(start)
       /\ IsPotentialAssignment(start)
       /\ ~(NameLengthOk(var_name) /\ valid_name(var_name))
       /\ Remember(start)
       /\ call' = Call(call.step + 1, line, "rejected", "none", var_name, NAN,
                       RejectionMessage(var_name))
       /\ UNCHANGED <<variables, last_result, memory, pc, input, tokens, postfix, result,
                      exit_code>>
       /\ UNCHANGED beside

\* any other line: evaluate_expression
Expression(line) ==
    \E start \in {Start(line)} :
       /\ Prompt
       /\ NotCommand(start)
       /\ ~IsPotentialAssignment(start)
       /\ Remember(start)
       /\ \E r \in {evaluate_expression(start, variables, last_result)} :
             /\ ~r.oom
             /\ variables' = r.variables
             /\ last_result' = r.last_result
             /\ call' = Call(call.step + 1, line, "expression", "evaluate_expression",
                             <<>>, r.ret, r.err)
       /\ UNCHANGED <<memory, pc, input, tokens, postfix, result, exit_code>>
       /\ UNCHANGED beside

Next ==
    \/ \E line \in Lines : EmptyLine(line)
    \/ \E line \in Lines : Command(line)
    \/ \E line \in Lines : Exit(line)
    \/ \E line \in Lines : Assignment(line)
    \/ \E line \in Lines : RejectedAssignment(line)
    \/ \E line \in Lines : Expression(line)

Spec == Init /\ [][Next]_vars

\* one pass of the loop over a line of the store sessions
NextStoreSession ==
    \/ \E line \in StoreSessionLines : EmptyLine(line)
    \/ \E line \in StoreSessionLines : Command(line)
    \/ \E line \in StoreSessionLines : Exit(line)
    \/ \E line \in StoreSessionLines : Assignment(line)
    \/ \E line \in StoreSessionLines : RejectedAssignment(line)
    \/ \E line \in StoreSessionLines : Expression(line)

\* the interactive loop over these lines, from startup or from a store one
\* entry from full
SpecStoreSession == Init /\ [][NextStoreSession]_vars

\* the session after the lines 3, m+ and 2: the memory holds 3, last_result
\* and ans hold 2, the history the three lines
InitMemory ==
    /\ variables = set_variable(<<>>, ANS, Num(2)).variables
    /\ last_result = Num(2)
    /\ memory = Num(3)
    /\ command_history = << <<"3">>, CmdMPlus, <<"2">> >>
    /\ call = NoCall
    /\ pc = "prompt"
    /\ input = <<>>
    /\ tokens = NoTokens
    /\ postfix = NoPostfix
    /\ result = Pending
    /\ argv = <<>>
    /\ exit_code = NoExit
    /\ commands = <<>>
    /\ eval_stack = <<>>
    /\ eval_i = 1
    /\ eval_err = ""

\* the interactive loop from there on
SpecMemory == InitMemory /\ [][Next]_vars

(* ---------------- one evaluation, stage by stage ------------------------- *)

\* the texts the explored evaluations are built from
Operands == { <<DigitChar(i)>> : i \in 0..MaxOperand }

BinaryOperators == { "+", "-", "*", "/", "^", "%" }

\* l o r with blanks around the operator (a '%' that touches a number is the
\* percent suffix of that number, so the binary operator stands apart)
Bin(l, o, r) == l \o <<" ", o, " ">> \o r

Paren(t) == <<"(">> \o t \o <<")">>

\* a o b, a o b p c, (a o b) p c and a o (b p c) over one-digit numbers
TwoOperandInputs == { Bin(a, o, b) : a \in Operands, o \in BinaryOperators, b \in Operands }

ChainInputs ==
    { Bin(ab, p, c) : ab \in TwoOperandInputs, p \in BinaryOperators, c \in Operands }

LeftGroupedInputs ==
    { Bin(Paren(ab), p, c) : ab \in TwoOperandInputs, p \in BinaryOperators, c \in Operands }

RightGroupedInputs ==
    { Bin(a, o, Paren(bc)) : a \in Operands, o \in BinaryOperators, bc \in TwoOperandInputs }

\* right operands of / and % that are zero, or not, in several ways
Divisors ==
    { <<"0">>, <<"x">>, <<"0", "%">>, <<"0", ".", "0">>, Paren(<<"2", "-", "2">>),
      Paren(<<"0", "*", "3">>), Paren(<<"x">>), <<"a", "n", "s">>,
      <<"2">>, <<"5", "0", "%">>, Paren(<<"2", "-", "1">>) }

Dividends == { <<"5">>, <<"0">>, <<"2", "0", "%">>, Paren(<<"1", "+", "2">>) }

DivisionInputs ==
    { pre \o Bin(l, o, r) : pre \in { <<>>, <<"1", " ", "+", " ">> },
                            l \in Dividends, o \in { "/", "%" }, r \in Divisors }

\* arguments of function applications, inside and outside the domains
Arguments ==
    Operands \cup { <<"0", "-">> \o a : a \in Operands }
    \cup { <<"1", "/", "2">>, <<"0", "-", "1", "/", "2">>, <<"3", "/", "2">>,
           <<"0", "-", "3", "/", "2">>, <<"1", "0", "0", "%">>, <<"1", "5", "0", "%">>,
           <<"0", "%">>, <<"5", "0", "%">>, <<"x">>, <<"1", "-", "2", "0", "0", "%">>,
           <<"i", "n", "f">> }

FunctionInputs == { f \o Paren(a) : f \in FunctionNames, a \in Arguments }

\* operands of the percentage arithmetic: number texts that also stand with a
\* percent suffix, and left operands that are expressions of their own
PercentNumbers ==
    { <<"1", "0", "0">>, <<"2", "0">>, <<"1", "0">>, <<"5", "0">>, <<"0">>, <<"2", ".", "5">> }

Tagged(b) == b \o <<"%">>

PercentExpressions ==
    { Paren(<<"1", " ", "+", " ", "2">>), <<"1", "0", "0", " ", "+", " ", "2", "0", "%">>,
      <<"2", " ", "*", " ", "5", "0">>, <<"x">>, Paren(<<"2", "0", "%">>) }

PercentLefts == PercentNumbers \cup { Tagged(a) : a \in PercentNumbers } \cup PercentExpressions

PercentRights == PercentNumbers \cup { Tagged(b) : b \in PercentNumbers }

AdditiveInputs == { Bin(l, o, r) : l \in PercentLefts, o \in { "+", "-" }, r \in PercentRights }

\* a percentage literal that no operator and no function consumes
LoneTaggedInputs ==
    UNION { { Tagged(a), Paren(Tagged(a)), Paren(Paren(Tagged(a))), <<" ">> \o Tagged(a) \o <<" ">> }
            : a \in PercentNumbers }

\* k times +1
PlusOnes(k) == [i \in 1..2 * k |-> IF i % 2 = 1 THEN "+" ELSE "1"]

\* texts around the token limit, each with the number of tokens it stands for,
\* the synthetic zero of each unary sign counted
LimitCases ==
    LET h == MAX_TOKENS \div 2 IN
    { << <<"1">> \o PlusOnes(h - 1), MAX_TOKENS - 1 >>,
      << <<"1", " ", "1">> \o PlusOnes(h - 1), MAX_TOKENS >>,
      << <<"1">> \o PlusOnes(h), MAX_TOKENS + 1 >>,
      << <<"-", "1", " ", "1">> \o PlusOnes(h - 2), MAX_TOKENS >>,
      << <<"-", "1">> \o PlusOnes(h - 1), MAX_TOKENS + 1 >>,
      << <<"1">> \o PlusOnes(h - 2) \o <<"+", "-">>, MAX_TOKENS >>,
      << <<"1">> \o PlusOnes(h - 2) \o <<"+", "-", "1">>, MAX_TOKENS + 1 >>,
      << <<"1", " ", "1">> \o PlusOnes(h - 2) \o <<"+", "-", "1">>, MAX_TOKENS + 2 >>,
      << <<"1">> \o PlusOnes(h - 2) \o <<"+", "(", "-", "1">>, MAX_TOKENS + 2 >> }

LimitInputs == { c[1] : c \in LimitCases }

\* left operands that stay whole before * and /
PercentFactors == PercentLefts \ { <<"1", "0", "0", " ", "+", " ", "2", "0", "%">> }

MultiplicativeInputs ==
    { Bin(l, o, r) : l \in PercentFactors, o \in { "*", "/" }, r \in PercentRights }

\* identifiers that are no constant, no function and not in the store
UnknownIdentifiers == { <<"y">>, <<"x", "1">>, <<"P", "i">>, <<"_", "x">>, <<"s", "i", "n", "h">> }

\* the places an identifier id is read from
IdentifierInputs(id) ==
    { id, <<"2", " ", "+", " ">> \o id, id \o <<" ", "*", " ", "2">>, <<"2">> \o id,
      <<"s", "q", "r", "t">> \o Paren(id), Paren(id), <<"-">> \o id, id \o Paren(<<"2">>),
      <<"x", " ", "+", " ">> \o id }

\* inputs that name only known identifiers, and inputs that fail in other ways
OtherInputs ==
    UNION { IdentifierInputs(id) : id \in { <<"x">>, <<"p", "i">>, ANS } }
    \cup { <<>>, <<" ">>, <<"(", "1", "+", "2">>, <<"1", "+", "2", ")">>, <<"1", "+">>,
           <<"2", "$">>, <<"2", " ", "3">>, <<"x", "=", "2">> }

\* a o -b: a binary operator followed by a unary minus
UnaryBin(a, o, b) == a \o <<" ", o, " ", "-">> \o b

\* a unary minus at the start, after each kind of binary operator and after a
\* left parenthesis
UnaryInputs ==
    { UnaryBin(a, o, b) : a \in Operands, o \in {"+", "-", "*", "/", "^"}, b \in Operands }
    \cup { <<"-">> \o b : b \in Operands }
    \cup { a \o <<" ", "*", " ">> \o Paren(<<"-">> \o b) : a \in Operands, b \in Operands }

\* what stands before a sign: a text, the number of its tokens, and its kind
SignPrefixes ==
    { <<<<>>, 0, "start">>,
      <<<<"2", " ", "*">>, 2, "operator">>, <<<<"2", "^">>, 2, "operator">>,
      <<<<"2", " ", "-">>, 2, "operator">>, <<<<"-">>, 2, "operator">>,
      <<<<"2", "%", " ", "%">>, 2, "operator">>,
      <<<<"(">>, 1, "lparen">>, <<<<"2", "*", "(">>, 3, "lparen">>,
      <<<<"2">>, 1, "number">>, <<<<"2", "0", "%">>, 1, "percentage">>,
      <<<<"p", "i">>, 1, "constant">>, <<ANS, 1, "constant">>, <<<<"x">>, 1, "variable">>,
      <<<<"(", "2", ")">>, 3, "rparen">>,
      <<<<"a", "b", "s">>, 1, "function">>, <<<<"y", " ", "=">>, 1, "assignment">> }

\* a sign after each of them, with and without a blank between, and 3 after it
SignInput(pre, gap, sign) == pre \o gap \o <<sign, "3">>

SignInputs ==
    { SignInput(sp[1], gap, sign) :
        sp \in SignPrefixes, gap \in { <<>>, <<" ">> }, sign \in {"+", "-"} }

\* a % b written with the blanks before and after the percent sign
Spaced(a, before, after, b) == a \o before \o <<"%">> \o after \o b

ModuloNumbers == Operands \cup { <<"1", "7">> }

\* a%b, a %b, a% b and a % b
ModuloInputs ==
    { Spaced(a, before, after, b) :
        a \in ModuloNumbers, b \in ModuloNumbers,
        before \in { <<>>, <<" ">> }, after \in { <<>>, <<" ">> } }

\* a function name followed by something other than a parenthesised argument
BareFunctionInputs ==
    { f \o rest : f \in { <<"a", "b", "s">>, <<"f", "l", "o", "o", "r">>, <<"s", "i", "n">> },
                  rest \in { <<" ", "3">>, <<" ", "3", " ", "+", " ", "4">>,
                             <<" ", "3", " ", "-", " ", "4">>, <<" ", "-", "3">>,
                             <<" ", "3", " ", "*", " ", "(", "2", ")">> } }
    \cup { <<"2", " ", "a", "b", "s">>, <<"2", " ", "*", " ", "a", "b", "s", " ", "3", " ", "-", " ", "4">> }

EvalInputs ==
    SignInputs \cup ModuloInputs \cup BareFunctionInputs \cup TwoOperandInputs \cup ChainInputs \cup LeftGroupedInputs \cup RightGroupedInputs
    \cup DivisionInputs \cup FunctionInputs \cup AdditiveInputs
    \cup MultiplicativeInputs \cup LoneTaggedInputs \cup LimitInputs \cup UnaryInputs
    \cup UNION { IdentifierInputs(id) : id \in UnknownIdentifiers } \cup OtherInputs

\* the store and last result of a session after the line x = 0
EvalStore == handle_assignment(<<"x">>, <<"0">>, StartupStore, Num(0)).variables

\* evaluate_expression is entered with some input
InitEval ==
    /\ input \in EvalInputs
    /\ variables = EvalStore
    /\ last_result = Num(0)
    /\ memory = Num(0)
    /\ call = NoCall
    /\ pc = "tokenize"
    /\ tokens = NoTokens
    /\ postfix = NoPostfix
    /\ result = Pending
    /\ NoProcess

\* what evaluate_expression leaves behind when it returns ret after printing err
Return(ret, err) ==
    /\ result' = ret
    /\ call' = Call(1, input, "expression", "evaluate_expression", <<>>, ret, err)
    /\ pc' = "returned"

\* int token_count = tokenize(input, tokens, MAX_TOKENS) and the check of it
Tokenize ==
    /\ pc = "tokenize"
    /\ tokens' = tokenize(input, MAX_TOKENS, variables, last_result)
    /\ IF tokens'.count <= 0
       THEN Return(NAN, tokens'.err)
       ELSE pc' = "shunting_yard" /\ UNCHANGED <<result, call>>
    /\ UNCHANGED <<variables, last_result, memory, input, postfix>>
    /\ UNCHANGED aside

\* int postfix_count = shunting_yard(...) and the check of it
ShuntingYard ==
    /\ pc = "shunting_yard"
    /\ postfix' = shunting_yard(tokens.tokens, tokens.count, MAX_TOKENS)
    /\ IF postfix'.count < 0
       THEN Return(NAN, postfix'.err)
       ELSE pc' = "evaluate_postfix" /\ UNCHANGED <<result, call>>
    /\ UNCHANGED <<variables, last_result, memory, input, tokens>>
    /\ UNCHANGED aside

\* double result = evaluate_postfix(...), and the commit when it is no NaN
EvaluatePostfix ==
    \E r \in {evaluate_postfix(postfix.output, postfix.count)} :
    /\ pc = "evaluate_postfix"
    /\ ~r.oom
    /\ IF ~isnan(r.value)
       THEN \E ans \in {set_variable(variables, ANS, r.value)} :
               /\ last_result' = r.value
               /\ variables' = ans.variables
               /\ Return(r.value, Join(r.err, ans.err))
       ELSE Return(r.value, r.err) /\ UNCHANGED <<variables, last_result>>
    /\ UNCHANGED <<memory, input, tokens, postfix>>
    /\ UNCHANGED aside

NextEval == Tokenize \/ ShuntingYard \/ EvaluatePostfix

SpecEval == InitEval /\ [][NextEval]_vars

(* ---------------- the converter and the evaluator on token sequences ----- *)

\* the tokens the explored sequences are made of
TokenAlphabet ==
    { NumberToken(Num(2), 0), NumberToken(Num(3), 0), OperatorToken("OP_ADD"),
      OperatorToken("OP_POW"), FunctionToken("FUNC_ABS"), LParenToken, RParenToken }

\* sequences that hold a token the converter refuses
StrayTokenSequences ==
    { <<VariableToken(<<"x">>)>>,
      <<NumberToken(Num(2), 0), OperatorToken("OP_ADD"), VariableToken(<<"x">>)>>,
      <<LParenToken, NumberToken(Num(2), 0), VariableToken(<<"x">>), RParenToken>>,
      <<NumberToken(Num(2), 0), AssignmentToken(<<"x">>), NumberToken(Num(3), 0)>> }

TokenSequences ==
    UNION { [1..n -> TokenAlphabet] : n \in 0..MaxTokenCount } \cup StrayTokenSequences

\* postfix sequences hold no parentheses
PostfixSequences ==
    { ps \in TokenSequences : \A i \in 1..Len(ps) : ps[i] \notin { LParenToken, RParenToken } }

\* shunting_yard is called on a token sequence, or evaluate_postfix on a
\* postfix sequence
InitTokens ==
    /\ input = <<>>
    /\ variables = EvalStore
    /\ last_result = Num(0)
    /\ memory = Num(0)
    /\ call = NoCall
    /\ result = Pending
    /\ NoProcess
    /\ \/ /\ \E ts \in TokenSequences : tokens = [count |-> Len(ts), tokens |-> ts, err |-> ""]
          /\ postfix = NoPostfix
          /\ pc = "shunting_yard"
       \/ /\ \E ps \in PostfixSequences : postfix = [count |-> Len(ps), output |-> ps, err |-> ""]
          /\ tokens = NoTokens
          /\ pc = "evaluate_postfix"

\* shunting_yard called with an output queue of exactly token_count places
CallShuntingYard ==
    /\ pc = "shunting_yard"
    /\ postfix' = shunting_yard(tokens.tokens, tokens.count, tokens.count)
    /\ pc' = "converted"
    /\ UNCHANGED <<variables, last_result, memory, call, input, tokens, result>>
    /\ UNCHANGED aside

NextTokens == ShuntingYard \/ CallShuntingYard \/ EvaluatePostfix

SpecTokens == InitTokens /\ [][NextTokens]_vars

(* ---------------- calls of the two entry points --------------------------- *)

\* a name longer than an entry of the store holds
LongName == [i \in 1..MAX_IDENTIFIER_LEN + 3 |-> "a"]

\* the targets and the texts the entry points are called with
CallNames == { <<"x">>, <<"y">>, ANS, <<"c">>, LongName }

\* texts that hold name = themselves: at the start, after an operator, in
\* parentheses
AssignmentTexts ==
    { <<"y", " ", "=", " ", "5">>, <<"2", " ", "+", " ", "x", " ", "=", " ", "3">>,
      <<"(", "y", "=", "5", ")">> }

CallTexts ==
    { <<"2">>, <<"x", "+", "1">>, <<"1", "/", "0">>, ANS, <<"c">>, <<>> } \cup AssignmentTexts

\* the store after MAX_VARIABLES calls of set_variable with new names, none of
\* them ans: v00, v01, ...
SetStore == [i \in 1..MAX_VARIABLES |-> [name |-> FillerName(i - 1), value |-> Num(1)]]

\* a process that has not called anything yet, its store empty, or one whose
\* store set_variable has filled
InitCalls ==
    /\ variables \in { <<>>, SetStore }
    /\ last_result = Num(0)
    /\ memory = Num(0)
    /\ call = NoCall
    /\ pc = "call"
    /\ input = <<>>
    /\ tokens = NoTokens
    /\ postfix = NoPostfix
    /\ result = Pending
    /\ NoProcess

\* evaluate_expression(text)
CallEvaluateExpression(text) ==
    \E r \in {evaluate_expression(text, variables, last_result)} :
       /\ pc = "call"
       /\ call.step < MaxSteps
       /\ ~r.oom
       /\ variables' = r.variables
       /\ last_result' = r.last_result
       /\ call' = Call(call.step + 1, text, "expression", "evaluate_expression", <<>>,
                       r.ret, r.err)
       /\ UNCHANGED <<memory, pc, input, tokens, postfix, result>>
       /\ UNCHANGED aside

\* handle_assignment(var_name, text)
CallHandleAssignment(var_name, text) ==
    \E r \in {handle_assignment(var_name, text, variables, last_result)} :
       /\ pc = "call"
       /\ call.step < MaxSteps
       /\ ~r.oom
       /\ variables' = r.variables
       /\ last_result' = r.last_result
       /\ call' = Call(call.step + 1, text, "assignment", "handle_assignment", var_name,
                       r.ret, r.err)
       /\ UNCHANGED <<memory, pc, input, tokens, postfix, result>>
       /\ UNCHANGED aside

NextCalls ==
    \/ \E text \in CallTexts : CallEvaluateExpression(text)
    \/ \E var_name \in CallNames, text \in CallTexts : CallHandleAssignment(var_name, text)

SpecCalls == InitCalls /\ [][NextCalls]_vars

(* ---------------- set_variable on a store -------------------------------- *)

\* the stores set_variable is called on: empty, small, one short of full, full
Stores ==
    { <<>>, StartupStore, EvalStore, FilledStore(MAX_VARIABLES - 2),
      FilledStore(MAX_VARIABLES - 1) }

\* the names it is called with: stored ones, new ones, the empty name, and a
\* name longer than an entry holds
StoreNames ==
    { ANS, <<"x">>, FillerName(1), FillerName(MAX_VARIABLES - 2), FillerName(MAX_VARIABLES - 1),
      <<"y">>, <<"n", "e", "w">>, <<>>, LongName }

StoreValues == { Num(0), Num(7), Rat(1, 2) }

InitStore ==
    /\ variables \in Stores
    /\ input \in StoreNames
    /\ last_result = Num(0)
    /\ memory = Num(0)
    /\ call = NoCall
    /\ pc = "set_variable"
    /\ tokens = NoTokens
    /\ postfix = NoPostfix
    /\ result = Pending
    /\ NoProcess

\* set_variable(input, value): result keeps the value passed, call the index
\* returned
SetVariable ==
    \E value \in StoreValues :
    \E r \in {set_variable(variables, input, value)} :
    /\ pc = "set_variable"
    /\ variables' = r.variables
    /\ result' = value
    /\ call' = Call(1, input, "call", "set_variable", input, Num(r.ret), r.err)
    /\ pc' = "returned"
    /\ UNCHANGED <<last_result, memory, input, tokens, postfix>>
    /\ UNCHANGED aside

NextStore == SetVariable

SpecStore == InitStore /\ [][NextStore]_vars

(* ---------------- evaluations on a store of reserved names ---------------- *)

\* the names tokenize knows before it looks into the store
ReservedNames == ConstantNames \cup {ANS} \cup FunctionNames

\* the reserved names other than ans, in the order of the code, and x
ShadowedNames ==
    << <<"p", "i">>, <<"e">>, <<"p", "h", "i">>, <<"g", "a", "m", "m", "a">>, <<"c">>,
       <<"h">>, <<"G">>, <<"N", "a">>, <<"k">>, <<"i", "n", "f">>,
       <<"s", "i", "n">>, <<"c", "o", "s">>, <<"t", "a", "n">>, <<"a", "s", "i", "n">>,
       <<"a", "c", "o", "s">>, <<"a", "t", "a", "n">>, <<"l", "o", "g">>, <<"l", "n">>,
       <<"s", "q", "r", "t">>, <<"e", "x", "p">>, <<"a", "b", "s">>,
       <<"f", "l", "o", "o", "r">>, <<"c", "e", "i", "l">>, <<"r", "o", "u", "n", "d">>,
       <<"x">> >>

\* the store after startup, set_variable(ans, 7) and set_variable(n, 7) for each
\* of these names: ans stays the first entry, each new name is appended
ShadowStore ==
    set_variable(StartupStore, ANS, Num(7)).variables \o
    [i \in 1..Len(ShadowedNames) |-> [name |-> ShadowedNames[i], value |-> Num(7)]]

\* the names read: the reserved ones, a variable, an unknown identifier
NamesRead == ReservedNames \cup { <<"x">>, <<"y">> }

\* the places a name n is read from, and the index of its token there
NamePlaces(n) ==
    { <<n, 1>>, <<n \o Paren(<<"1">>), 1>>, <<<<"2", " ", "+", " ">> \o n, 3>>,
      <<Paren(n), 2>> }

NameInputs == { pl[1] : pl \in UNION { NamePlaces(n) : n \in NamesRead } }

\* evaluate_expression is entered with a name to read, on the store of the
\* evaluations above or on the store that holds every reserved name
InitNames ==
    /\ input \in NameInputs
    /\ variables \in { EvalStore, ShadowStore }
    /\ last_result = Num(0)
    /\ memory = Num(0)
    /\ call = NoCall
    /\ pc = "tokenize"
    /\ tokens = NoTokens
    /\ postfix = NoPostfix
    /\ result = Pending
    /\ NoProcess

SpecNames == InitNames /\ [][NextEval]_vars

(* ---------------- evaluate_postfix, pass by pass --------------------------- *)

\* the tokens of the postfix sequences evaluated pass by pass: 20%, 2, four
\* operators and a function
StackAlphabet ==
    { NumberToken(Num(20), 1), NumberToken(Num(2), 0), OperatorToken("OP_ADD"),
      OperatorToken("OP_MUL"), OperatorToken("OP_POW"), OperatorToken("OP_MOD"),
      FunctionToken("FUNC_ABS") }

StackSequences == UNION { [1..n -> StackAlphabet] : n \in 1..MaxPostfix }

\* evaluate_postfix is entered: the stack is empty, the first token is next
InitStack ==
    /\ \E ps \in StackSequences : postfix = [count |-> Len(ps), output |-> ps, err |-> ""]
    /\ eval_stack = <<>>
    /\ eval_i = 1
    /\ eval_err = ""
    /\ pc = "evaluate_postfix"
    /\ input = <<>>
    /\ tokens = NoTokens
    /\ variables = EvalStore
    /\ last_result = Num(0)
    /\ memory = Num(0)
    /\ call = NoCall
    /\ result = Pending
    /\ argv = <<>>
    /\ exit_code = NoExit
    /\ command_history = NoHistory
    /\ commands = <<>>

\* one pass of the for loop of evaluate_postfix
EvaluatePass ==
    \E st \in {EvaluateStep(Eval(eval_i, eval_stack, eval_err), postfix.output,
                             postfix.count)} :
       /\ pc = "evaluate_postfix"
       /\ eval_i <= postfix.count
       /\ ~st.out.oom
       /\ eval_err' = st.printed
       /\ IF st.done
          THEN /\ pc' = "returned"
               /\ result' = st.out.value
               /\ call' = Call(1, <<>>, "call", "evaluate_postfix", <<>>, st.out.value,
                               st.out.err)
               /\ UNCHANGED <<eval_stack, eval_i>>
          ELSE /\ eval_stack' = st.stack
               /\ eval_i' = st.i
               /\ UNCHANGED <<pc, result, call>>
       /\ UNCHANGED <<variables, last_result, memory, input, tokens, postfix>>
       /\ UNCHANGED <<argv, exit_code, command_history, commands>>

\* the check after the loop and the return
EvaluateReturn ==
    \E st \in {EvaluateStep(Eval(eval_i, eval_stack, eval_err), postfix.output,
                             postfix.count)} :
       /\ pc = "evaluate_postfix"
       /\ eval_i > postfix.count
       /\ pc' = "returned"
       /\ result' = st.out.value
       /\ eval_err' = st.printed
       /\ call' = Call(1, <<>>, "call", "evaluate_postfix", <<>>, st.out.value, st.out.err)
       /\ UNCHANGED <<variables, last_result, memory, input, tokens, postfix>>
       /\ UNCHANGED <<argv, exit_code, command_history, commands, eval_stack, eval_i>>

NextStack == EvaluatePass \/ EvaluateReturn

SpecStack == InitStack /\ [][NextStack]_vars

(* ---------------- main: command-line expression mode -------------------- *)

CMD_LINE_EXPR_BUFFER_SIZE == NMRI_MAX_INPUT * 2

ErrExpressionTooLong == "Command line expression too long."

\* the for loop of main from argument i on: expression_buffer after the
\* arguments were appended to buffer, too_long when one of them did not fit
RECURSIVE Concatenate(_, _, _)
Concatenate(args, i, buffer) ==
    IF i > Len(args) THEN [buffer |-> buffer, too_long |-> FALSE]
    ELSE IF Len(buffer) + Len(args[i]) + (IF Len(buffer) > 0 THEN 1 ELSE 0)
              >= CMD_LINE_EXPR_BUFFER_SIZE
    THEN [buffer |-> buffer, too_long |-> TRUE]
    ELSE Concatenate(args, i + 1,
                     (IF Len(buffer) > 0 THEN buffer \o <<" ">> ELSE buffer) \o args[i])

\* a sum of ones, n characters wide: 1, then "+", 49 blanks and 1 as often as
\* it fits, then blanks
Wide(n) ==
    [i \in 1..n |->
       IF i = 1 THEN "1"
       ELSE IF i > 1 + 51 * ((n - 1) \div 51) THEN " "
       ELSE IF (i - 2) % 51 = 0 THEN "+"
       ELSE IF (i - 2) % 51 = 50 THEN "1"
       ELSE " "]

\* the same without its first 1, n characters wide
PlusWide(n) == [i \in 1..n |-> Wide(n + 1)[i + 1]]

\* the words of the explored command lines
ArgTexts ==
    { <<"2">>, <<"+">>, <<"3">>, <<>>, <<"x">>, <<"=">>, <<"m", "+">>, <<"1", "/", "0">> }

\* the explored command lines: up to MaxArgs words, and lines at the size of
\* the buffer
ArgLists ==
    UNION { [1..n -> ArgTexts] : n \in 1..MaxArgs }
    \cup { <<Wide(CMD_LINE_EXPR_BUFFER_SIZE - 1)>>, <<Wide(CMD_LINE_EXPR_BUFFER_SIZE)>>,
           <<<<>>, Wide(CMD_LINE_EXPR_BUFFER_SIZE - 1)>>,
           <<<<>>, Wide(CMD_LINE_EXPR_BUFFER_SIZE - 2)>>,
           <<<<"2">>, PlusWide(CMD_LINE_EXPR_BUFFER_SIZE - 3)>>,
           <<<<"2">>, PlusWide(CMD_LINE_EXPR_BUFFER_SIZE - 2)>>,
           <<Wide(NMRI_MAX_INPUT - 1), PlusWide(NMRI_MAX_INPUT - 1)>>,
           <<Wide(NMRI_MAX_INPUT), PlusWide(NMRI_MAX_INPUT - 1)>> }

\* the process as main is entered with arguments
InitBatch ==
    /\ argv \in ArgLists
    /\ exit_code = NoExit
    /\ command_history = NoHistory
    /\ commands = <<>>
    /\ eval_stack = <<>>
    /\ eval_i = 1
    /\ eval_err = ""
    /\ variables = <<>>
    /\ last_result = Num(0)
    /\ memory = Num(0)
    /\ call = NoCall
    /\ pc = "main"
    /\ input = <<>>
    /\ tokens = NoTokens
    /\ postfix = NoPostfix
    /\ result = Pending

\* main with arguments: set ans, join the arguments into expression_buffer
\* (kept in input), evaluate it once and return 1 on NaN, 0 otherwise
CommandLineExpression ==
    \E store \in {set_variable(variables, ANS, Num(0)).variables} :
    \E joined \in {Concatenate(argv, 1, <<>>)} :
    \E r \in {IF joined.too_long
              THEN CycleResult(NAN, ErrExpressionTooLong, store, last_result)
              ELSE evaluate_expression(joined.buffer, store, last_result)} :
       /\ pc = "main"
       /\ Len(argv) >= 1
       /\ ~r.oom
       /\ input' = joined.buffer
       /\ variables' = r.variables
       /\ last_result' = r.last_result
       /\ result' = r.ret
       /\ call' = Call(1, joined.buffer, "expression",
                       IF joined.too_long THEN "none" ELSE "evaluate_expression", <<>>,
                       r.ret, r.err)
       /\ exit_code' = IF isnan(r.ret) THEN 1 ELSE 0
       /\ pc' = "exited"
       /\ UNCHANGED <<memory, tokens, postfix, argv, command_history, commands, eval_stack,
                      eval_i, eval_err>>

NextBatch == CommandLineExpression

SpecBatch == InitBatch /\ [][NextBatch]_vars

(* ---------------- the calls of add_to_history --------------------------- *)

\* the commands handed to add_to_history: the empty one, history, history
\* followed by a blank, two short lines and a line that fills the input buffer
HistoryCommands ==
    { <<>>, <<"h", "i", "s", "t", "o", "r", "y">>,
      <<"h", "i", "s", "t", "o", "r", "y", " ">>,
      <<"1">>, <<"2">>, Wide(NMRI_MAX_INPUT - 1) }

\* n lines, 1 and 2 in turn
Alternating(n) == [i \in 1..n |-> IF i % 2 = 1 THEN <<"1">> ELSE <<"2">>]

\* the calls are followed from the empty history and from a history that is
\* two lines from full, one line from full, or full
HistoryStarts == { 0, HISTORY_SIZE - 2, HISTORY_SIZE - 1, HISTORY_SIZE }

\* MaxCalls calls are followed from the empty history, and up to MaxCalls
\* past HISTORY_SIZE from the others
Followed(n) ==
    \/ n < MaxCalls
    \/ n >= HISTORY_SIZE - 2 /\ n < HISTORY_SIZE + MaxCalls

\* history_count = 0 at start; each of the lines of Alternating differs from
\* the one before it, so after them the history holds them all
InitHistory ==
    /\ \E n \in HistoryStarts :
          /\ commands = Alternating(n)
          /\ command_history = Alternating(n)
    /\ argv = <<>>
    /\ exit_code = NoExit
    /\ eval_stack = <<>>
    /\ eval_i = 1
    /\ eval_err = ""
    /\ variables = <<>>
    /\ last_result = Num(0)
    /\ memory = Num(0)
    /\ call = NoCall
    /\ pc = "add_to_history"
    /\ input = <<>>
    /\ tokens = NoTokens
    /\ postfix = NoPostfix
    /\ result = Pending

\* a call add_to_history(cmd); commands keeps the arguments of the calls
AddToHistory ==
    \E cmd \in HistoryCommands :
       /\ pc = "add_to_history"
       /\ Followed(Len(commands))
       /\ command_history' = add_to_history(command_history, cmd)
       /\ commands' = Append(commands, cmd)
       /\ UNCHANGED <<variables, last_result, memory, call, pc, input, tokens, postfix,
                      result, argv, exit_code, eval_stack, eval_i, eval_err>>

NextHistory == AddToHistory

SpecHistory == InitHistory /\ [][NextHistory]_vars

(* ---------------- properties of the interactive session ----------------- *)

\* the last line ran a cycle of evaluate_expression or handle_assignment
IsCycle(cl) == cl.fn \in {"evaluate_expression", "handle_assignment"}

FailedCycle(cl) == IsCycle(cl) /\ isnan(cl.ret)

SuccessfulCycle(cl) == IsCycle(cl) /\ ~isnan(cl.ret)

\* the value of ans in store vs
AnsValue(vs) == vs[find_variable(vs, ANS) + 1].value

\* C1: a cycle of evaluate_expression or handle_assignment that fails (in
\* tokenize, in the conversion, in the evaluation, on an empty expression or on
\* a full store) leaves last_result and the whole variable store, ans and count
\* included, as they were before it
C1_FailedCycleChangesNothing ==
    [][FailedCycle(call') /\ call'.step = call.step + 1
       => variables' = variables /\ last_result' = last_result]_vars

\* a handle_assignment that failed on the full store after evaluating its expression
C1_Witness ==
    /\ call.fn = "handle_assignment"
    /\ call.err = ErrStoreFull
    /\ isnan(call.ret)
    /\ Len(variables) = MAX_VARIABLES
    /\ last_result = Num(1)

\* the last line bound name n: an accepted assignment to n, or store n
Bound(cl, n) ==
    \/ cl.kind = "assignment" /\ ~isnan(cl.ret) /\ cl.var_name = n
    \/ cl.kind = "command" /\ cl.line = CmdStore \o n /\ cl.err = ""

\* the value it bound: the value assigned, or for store the last result
BoundValue(cl, lr) == IF cl.kind = "assignment" THEN cl.ret ELSE lr

\* C2: once a name n is bound to v, by an assignment the interactive loop
\* accepts or by store n, evaluating the expression n returns v
C2_BoundNameEvaluatesToValue ==
    [][\A n \in TargetNames :
         /\ Bound(call, n)
         /\ call'.step = call.step + 1
         /\ call'.fn = "evaluate_expression"
         /\ call'.line = n
         => call'.ret = BoundValue(call, last_result)]_vars

\* the names of the commands
CommandNames ==
    PrintingCommands \cup
    { CmdExit, CmdQuit, CmdMPlus, CmdMMinus, CmdMr, CmdMc, <<"s", "t", "o", "r", "e">>,
      <<"l", "o", "g">> }

\* C3: handle_assignment is never invoked by the interactive loop for a target
\* that is a function name, a constant name or a command name
C3_ReservedTargetNeverAssigned ==
    call.fn = "handle_assignment" =>
        call.var_name \notin (FunctionNames \cup ConstantNames \cup CommandNames)

\* C6: a successful evaluate_expression or handle_assignment that returned v
\* leaves last_result = v, a failed one leaves last_result as it was, and
\* evaluating the expression ans returns last_result
C6_AnsIsLastSuccessfulResult ==
    [][call'.step = call.step + 1 =>
         /\ SuccessfulCycle(call') => last_result' = call'.ret
         /\ FailedCycle(call') => last_result' = last_result
         /\ call'.fn = "evaluate_expression" /\ call'.line = ANS => call'.ret = last_result
      ]_vars

\* ans evaluated right after 2+3 returned 5
C6_Witness ==
    /\ call.step = 2
    /\ call.fn = "evaluate_expression"
    /\ call.line = ANS
    /\ call.ret = Num(5)
    /\ last_result = Num(5)

\* the store holds ans with the value of last_result
AnsFollowsLastResult ==
    /\ find_variable(variables, ANS) >= 0
    /\ AnsValue(variables) = last_result

\* C7: in every state of the interactive loop the store holds ans with the value
\* of last_result; both are 0 at startup and stay 0 until a cycle succeeds
C7_AnsEqualsLastResult ==
    /\ [](AnsFollowsLastResult)
    /\ [](call.step = 0 /\ Len(variables) = 1 => last_result = Num(0))
    /\ [][last_result = Num(0) /\ ~SuccessfulCycle(call') => last_result' = Num(0)]_vars

\* the accepted assignment ans = 2: ans and last_result are both 2 after it
C7_Witness ==
    /\ call.kind = "assignment"
    /\ call.var_name = ANS
    /\ call.ret = Num(2)
    /\ AnsValue(variables) = Num(2)
    /\ last_result = Num(2)

(* ---------------- properties of one evaluation --------------------------- *)

\* evaluate_expression has returned
Returned == pc = "returned"

\* the cycle failed and left the store and the last result as it found them
FailedUnchanged ==
    /\ isnan(call.ret)
    /\ variables = EvalStore
    /\ last_result = Num(0)

\* the value of a binary operation as arithmetic defines it; "none" when it has
\* none (a zero divisor) or when an operand has none
None == [k |-> "none", n |-> 0, d |-> 1, u |-> 0, name |-> ""]

ValueOf(o, a, b) ==
    Only({ IF x[1] = None \/ x[2] = None THEN None
           ELSE CASE o = "+" -> Add(x[1], x[2])
                  [] o = "-" -> Sub(x[1], x[2])
                  [] o = "*" -> Mul(x[1], x[2])
                  [] o = "/" -> IF IsZero(x[2]) THEN None ELSE Div(x[1], x[2])
                  [] o = "%" -> IF IsZero(x[2]) THEN None ELSE fmod(x[1], x[2])
                  [] o = "^" -> pow(x[1], x[2]) :
           x \in {<<a, b>>} })

\* the rank of an operator as the precedence rule states it
Rank(o) == CASE o \in {"+", "-"} -> 1 [] o \in {"*", "/", "%"} -> 2 [] o = "^" -> 3

\* the one-digit number at position p of the input
NumberAt(p) == Num(DigitVal(input[p]))

\* evaluate_expression returned value v, or failed when v is "none"
Returns(v) ==
    \E w \in {v} : IF w = None \/ isnan(w) THEN FailedUnchanged
                   ELSE call.ret = w /\ last_result = w

\* an expression as a tree: a number, or an operator over two trees
Leaf(v) == [leaf |-> TRUE, v |-> v]

Node(o, l, r) == [leaf |-> FALSE, o |-> o, l |-> l, r |-> r]

\* the value of a tree
RECURSIVE TreeValue(_)
TreeValue(t0) ==
    Only({ IF t.leaf THEN t.v ELSE ValueOf(t.o, TreeValue(t.l), TreeValue(t.r)) : t \in {t0} })

\* (a o b) p c and a o (b p c) for the chain a o b p c that starts at position p
GroupedLeft(p) ==
    Node(input[p + 6], Node(input[p + 2], Leaf(NumberAt(p)), Leaf(NumberAt(p + 4))),
         Leaf(NumberAt(p + 8)))

GroupedRight(p) ==
    Node(input[p + 2], Leaf(NumberAt(p)),
         Node(input[p + 6], Leaf(NumberAt(p + 4)), Leaf(NumberAt(p + 8))))

\* the reading the precedence rule gives an input of the four shapes of C4
PrecedenceReading ==
    IF input \in TwoOperandInputs
    THEN Node(input[3], Leaf(NumberAt(1)), Leaf(NumberAt(5)))
    ELSE IF input \in LeftGroupedInputs
    THEN Node(input[9], Node(input[4], Leaf(NumberAt(2)), Leaf(NumberAt(6))),
              Leaf(NumberAt(11)))
    ELSE IF input \in RightGroupedInputs
    THEN Node(input[3], Leaf(NumberAt(1)),
              Node(input[8], Leaf(NumberAt(6)), Leaf(NumberAt(10))))
    ELSE IF Rank(input[3]) > Rank(input[7]) THEN GroupedLeft(1)
    ELSE GroupedRight(1)

\* C4: a well-formed expression over numbers, + - * / ^ % and parentheses
\* evaluates to its value under the precedence {+,-} < {*,/,%} < {^}, with
\* parentheses overriding it: a o b, (a o b) p c, a o (b p c), and a o b p c
\* with operators of different rank, where the higher one is applied first
C4_PrecedenceAndParentheses ==
    /\ Returned
    /\ \/ input \in TwoOperandInputs
       \/ input \in LeftGroupedInputs
       \/ input \in RightGroupedInputs
       \/ input \in ChainInputs /\ Rank(input[3]) # Rank(input[7])
    => \E reading \in {PrecedenceReading} : Returns(TreeValue(reading))

\* 2 + 3 * 4 returned 14
C4_Witness ==
    /\ Returned
    /\ input = <<"2", " ", "+", " ", "3", " ", "*", " ", "4">>
    /\ call.ret = Num(14)

\* C5: in a o b p c with operators of equal rank the left one is applied first,
\* except that a ^ b ^ c is a ^ (b ^ c)
C5_Associativity ==
    Returned /\ input \in ChainInputs /\ Rank(input[3]) = Rank(input[7]) =>
        \E reading \in {IF input[3] = "^" THEN GroupedRight(1) ELSE GroupedLeft(1)} :
            Returns(TreeValue(reading))

\* 2 ^ 3 ^ 2 returned 512
C5_Witness ==
    /\ Returned
    /\ input = <<"2", " ", "^", " ", "3", " ", "^", " ", "2">>
    /\ call.ret = Num(512)

\* the warnings evaluate_postfix prints before it goes on
Warnings == { WarnPowerPercentage, WarnModuloPercentage }

\* the call printed the error e, alone or after one warning
Raised(e) == call.err \in {e} \cup { Join(w, e) : w \in Warnings }

\* the call printed no error: nothing at all, or one warning
NoErrorRaised == call.err \in {""} \cup Warnings

\* the value the text r has as an expression of its own
OperandValue(r) ==
    Only({ evaluate_expression(r, st[1], st[2]).ret : st \in {<<EvalStore, Num(0)>>} })

\* C8: l / r and l % r fail with the division-by-zero or modulo-by-zero error,
\* and commit nothing, whenever r is zero (a literal 0, a variable, 0%, or a
\* sub-expression such as (2-2)); with any other r they raise neither error
C8_ZeroDivisorFails ==
    Returned =>
      \A pre \in { <<>>, <<"1", " ", "+", " ">> }, l \in Dividends, r \in Divisors :
        input \in { pre \o Bin(l, "/", r), pre \o Bin(l, "%", r) } =>
          IF IsZero(OperandValue(r))
          THEN /\ Raised(IF input = pre \o Bin(l, "/", r)
                         THEN ErrDivisionByZero ELSE ErrModuloByZero)
               /\ FailedUnchanged
          ELSE NoErrorRaised /\ ~isnan(call.ret)

\* 5 / (2-2) failed with the division-by-zero error
C8_Witness ==
    /\ Returned
    /\ input = Bin(<<"5">>, "/", Paren(<<"2", "-", "2">>))
    /\ call.err = ErrDivisionByZero
    /\ isnan(call.ret)

\* the domain of each function as the claim states it: v is outside the domain of f
OutsideDomain(f, v) ==
    \/ f \in { <<"a", "s", "i", "n">>, <<"a", "c", "o", "s">> }
         /\ (Less(v, Num(-1)) \/ Less(Num(1), v) \/ v = INFINITY)
    \/ f \in { <<"l", "o", "g">>, <<"l", "n">> } /\ (Less(v, Num(0)) \/ IsZero(v))
    \/ f = <<"s", "q", "r", "t">> /\ Less(v, Num(0))

\* C9: f(a) fails with the domain error, and commits nothing, exactly when the
\* percentage-normalised value of a is outside the domain of f (asin, acos
\* outside [-1,1], log at or below 0, sqrt below 0); in every other case, and
\* for every other function, it returns a value
C9_DomainErrors ==
    Returned =>
      \A f \in FunctionNames, a \in Arguments :
        input = f \o Paren(a) =>
          IF \E v \in {OperandValue(a)} : OutsideDomain(f, v)
          THEN call.err \in ErrDomain /\ FailedUnchanged
          ELSE call.err = "" /\ ~isnan(call.ret) /\ last_result = call.ret

\* the inputs that read an unknown identifier
UnknownIdentifierInputs == UNION { IdentifierInputs(id) : id \in UnknownIdentifiers }

\* C10: reading an identifier that is no constant, no function and not in the
\* store makes tokenize fail with the unknown-identifier error: the cycle
\* returns no value and no variable comes into being
C10_UnknownIdentifierFails ==
    input \in UnknownIdentifierInputs /\ pc # "tokenize" =>
        /\ Returned
        /\ tokens.count = -1
        /\ call.err = ErrUnknownIdentifier
        /\ FailedUnchanged
        /\ \A id \in UnknownIdentifiers : find_variable(variables, id) = -1

\* 2 + y failed in tokenize with the unknown-identifier error
C10_Witness ==
    /\ Returned
    /\ input = <<"2", " ", "+", " ", "y">>
    /\ tokens.count = -1
    /\ call.err = ErrUnknownIdentifier

(* ---------------- properties of the percentage arithmetic ---------------- *)

\* the face value of a left operand: the number of a tagged literal, bare or in
\* parentheses, without its percent sign; the value of any other operand
FaceValue(l) ==
    IF \E a \in PercentNumbers : l \in { Tagged(a), Paren(Tagged(a)) }
    THEN OperandValue(CHOOSE a \in PercentNumbers : l \in { Tagged(a), Paren(Tagged(a)) })
    ELSE OperandValue(l)

\* C11: l + b% returns a + (b/100)*a and l - b% returns a - (b/100)*a, where a
\* is the value of the whole left operand l; with an untagged right operand b
\* the result is a + b or a - b; a percent sign on the left operand changes
\* nothing, its face value is used
C11_AdditivePercentage ==
    Returned =>
      \A l \in PercentLefts, b \in PercentNumbers :
        input \in { Bin(l, "+", Tagged(b)), Bin(l, "-", Tagged(b)), Bin(l, "+", b), Bin(l, "-", b) } =>
          \E a \in {FaceValue(l)}, vb \in {OperandValue(b)} :
            \E share \in {Mul(Div(vb, Num(100)), a)} :
              /\ input = Bin(l, "+", Tagged(b)) => call.ret = Add(a, share) /\ last_result = call.ret
              /\ input = Bin(l, "-", Tagged(b)) => call.ret = Sub(a, share) /\ last_result = call.ret
              /\ input = Bin(l, "+", b) => call.ret = Add(a, vb) /\ last_result = call.ret
              /\ input = Bin(l, "-", b) => call.ret = Sub(a, vb) /\ last_result = call.ret

\* 100 + 20% + 10% returned 132
C11_Witness ==
    /\ Returned
    /\ input = Bin(<<"1", "0", "0", " ", "+", " ", "2", "0", "%">>, "+", <<"1", "0", "%">>)
    /\ call.ret = Num(132)

\* the operand is a tagged literal, bare or in parentheses
IsTagged(l) == \E a \in PercentNumbers : l \in { Tagged(a), Paren(Tagged(a)) }

\* the value a factor enters * and / with: a hundredth of the face value of a
\* tagged literal, the value of any other operand
FactorValue(l) ==
    \* the face value is computed once
    Only({ IF IsTagged(l) THEN Div(v, Num(100)) ELSE v : v \in {FaceValue(l)} })

\* C12: l * r and l / r work on the operands after each tagged one was replaced
\* by a hundredth of its face value, on either side independently, an untagged
\* operand being used as it is; l / r fails when that divisor is zero
C12_MultiplicativePercentage ==
    Returned =>
      \A l \in PercentFactors, r \in PercentRights :
        input \in { Bin(l, "*", r), Bin(l, "/", r) } =>
          \E fl \in {FactorValue(l)}, fr \in {FactorValue(r)} :
            /\ input = Bin(l, "*", r) =>
                 call.ret = Mul(fl, fr) /\ last_result = call.ret
            /\ input = Bin(l, "/", r) =>
                 IF IsZero(fr)
                 THEN call.err = ErrDivisionByZero /\ FailedUnchanged
                 ELSE call.ret = Div(fl, fr) /\ last_result = call.ret

\* 20% * 50% returned 0.1
C12_Witness ==
    /\ Returned
    /\ input = Bin(<<"2", "0", "%">>, "*", <<"5", "0", "%">>)
    /\ call.ret = Rat(1, 10)

\* C13: a percentage literal a% that is the whole expression, bare, in
\* parentheses or between blanks, returns a/100, and a/100 is what last_result
\* and ans hold after it: the result carries no tag
C13_ResultCarriesNoTag ==
    Returned =>
      \A a \in PercentNumbers :
        input \in { Tagged(a), Paren(Tagged(a)), Paren(Paren(Tagged(a))),
                    <<" ">> \o Tagged(a) \o <<" ">> } =>
          /\ \E v \in {OperandValue(a)} : call.ret = Div(v, Num(100))
          /\ last_result = call.ret
          /\ AnsValue(variables) = call.ret

\* (20%) returned 0.2
C13_Witness ==
    /\ Returned
    /\ input = Paren(<<"2", "0", "%">>)
    /\ call.ret = Rat(1, 5)
    /\ last_result = Rat(1, 5)

(* ---------------- properties of the tokenizer ---------------------------- *)

\* tokenize has returned
Tokenized == pc # "tokenize" /\ input # <<>>

\* C15: tokenize never writes more than max_tokens tokens; a text that stands
\* for more than max_tokens tokens, synthetic zeros counted, fails with the
\* too-complex error, and one that stands for max_tokens or fewer returns its
\* number of tokens
C15_TokenLimit ==
    Tokenized =>
      /\ Len(tokens.tokens) <= MAX_TOKENS
      /\ tokens.count \in -1..MAX_TOKENS
      /\ \A c \in LimitCases :
           input = c[1] =>
             IF c[2] > MAX_TOKENS
             THEN /\ tokens.count = -1
                  /\ tokens.err \in { ErrTooManyTokens, ErrUnaryTooMany }
                  /\ pc = "returned" /\ isnan(call.ret)
             ELSE tokens.count = c[2] /\ Len(tokens.tokens) = c[2] /\ tokens.err = ""

\* the text of MAX_TOKENS tokens, one of them a synthetic zero, was tokenized
C15_Witness ==
    /\ Tokenized
    /\ input = <<"-", "1", " ", "1">> \o PlusOnes(MAX_TOKENS \div 2 - 2)
    /\ tokens.count = MAX_TOKENS
    /\ tokens.tokens[1] = NumberToken(Num(0), 0)

(* ---------------- properties of the converter and the evaluator ---------- *)

\* the number of left parentheses still open after each token of ts, counted
\* from depth d; -1 from the first right parenthesis that closes nothing
RECURSIVE OpenAfter(_, _, _)
OpenAfter(ts, i, d) ==
    IF i > Len(ts) THEN d
    ELSE IF ts[i].type = "TOKEN_LPAREN" THEN OpenAfter(ts, i + 1, d + 1)
    ELSE IF ts[i].type = "TOKEN_RPAREN"
         THEN IF d = 0 THEN -1 ELSE OpenAfter(ts, i + 1, d - 1)
    ELSE OpenAfter(ts, i + 1, d)

\* shunting_yard has been called on a token sequence and has returned
Converted == tokens # NoTokens /\ pc \in { "evaluate_postfix", "returned" } /\ input = <<>>

\* C14: on a sequence of number, operator, function and parenthesis tokens
\* shunting_yard fails with the extra-right-parenthesis error when a right
\* parenthesis closes nothing, with the extra-left-parenthesis error when a left
\* parenthesis is still open at the end, and with neither, and no other error,
\* when the parentheses are balanced
C14_MismatchedParentheses ==
    Converted /\ tokens.tokens \notin StrayTokenSequences =>
      LET open == OpenAfter(tokens.tokens, 1, 0) IN
      /\ open < 0 => postfix.count = -1 /\ postfix.err = ErrExtraRParen
      /\ open > 0 => postfix.count = -1 /\ postfix.err = ErrExtraLParen
      /\ open = 0 => postfix.count >= 0 /\ postfix.err = ""

\* ( 2 + 2 failed with the extra-left-parenthesis error
C14_Witness ==
    /\ Converted
    /\ tokens.tokens = <<LParenToken, NumberToken(Num(2), 0), OperatorToken("OP_ADD"),
                         NumberToken(Num(2), 0)>>
    /\ postfix.count = -1
    /\ postfix.err = ErrExtraLParen

\* the number of values on the stack after the tokens of ps from the i-th on,
\* starting with d values; -1 once an operator finds fewer than two values or
\* a function finds none
RECURSIVE StackAfter(_, _, _)
StackAfter(ps, i, d) ==
    IF i > Len(ps) THEN d
    ELSE IF ps[i].type = "TOKEN_NUMBER" THEN StackAfter(ps, i + 1, d + 1)
    ELSE IF ps[i].type = "TOKEN_OPERATOR"
         THEN IF d < 2 THEN -1 ELSE StackAfter(ps, i + 1, d - 1)
    ELSE IF d < 1 THEN -1 ELSE StackAfter(ps, i + 1, d)

\* evaluate_postfix has been called on a postfix sequence and has returned
Evaluated == pc = "returned" /\ postfix.count >= 0 /\ input = <<>>

\* C16: evaluate_postfix returns a value only if every operator found two
\* values on the stack, every function one, and one value is left at the end;
\* otherwise it returns NaN with the error of the first of these that failed.
\* (With + and ^ on the number 2 and abs nothing else can fail, so such a
\* sequence does return a value.)
C16_PostfixArity ==
    Evaluated =>
      LET left == StackAfter(postfix.output, 1, 0) IN
      /\ ~isnan(call.ret) => left = 1
      /\ left = 1 => ~isnan(call.ret) /\ call.err = ""
      /\ left # 1 =>
           /\ isnan(call.ret)
           /\ call.err \in { ErrInsufficientOperands, ErrInsufficientArguments, ErrStructure }
           /\ FailedUnchanged

\* the tokens 2 + were converted and the evaluation found one operand for +
C16_Witness ==
    /\ Evaluated
    /\ tokens.tokens = <<NumberToken(Num(2), 0), OperatorToken("OP_ADD")>>
    /\ call.err = ErrInsufficientOperands
    /\ isnan(call.ret)

(* ---------------- properties of the variable store ----------------------- *)

\* the positions of store vs that hold name
Holding(vs, name) == { i \in 1..Len(vs) : vs[i].name = name }

\* C17: set_variable on a stored name puts the value into its entry, returns
\* its index and leaves the count and every other entry alone, full store or
\* not; on a new name it appends an entry with the value at index
\* variable_count if there is room; on a new name with a full store, and on the
\* empty name, it returns -1 and leaves the store as it was
C17_SetVariable ==
    [][pc = "set_variable" /\ pc' = "returned" =>
        LET name == input
            held == Holding(variables, name)
            count == Len(variables)
        IN IF name = <<>> THEN call'.ret = Num(-1) /\ variables' = variables
           ELSE IF held # {}
           THEN \E i \in held :
                  /\ call'.ret = Num(i - 1)
                  /\ variables' = [variables EXCEPT ![i].value = result']
           ELSE IF count < MAX_VARIABLES
           THEN /\ call'.ret = Num(count)
                /\ Len(variables') = count + 1
                /\ SubSeq(variables', 1, count) = variables
                /\ variables'[count + 1].value = result'
           ELSE call'.ret = Num(-1) /\ variables' = variables]_vars

\* ans was set to 7 in a full store: its entry, the first, holds 7
C17_Witness ==
    /\ pc = "returned"
    /\ call.fn = "set_variable"
    /\ input = ANS
    /\ Len(variables) = MAX_VARIABLES
    /\ call.ret = Num(0)
    /\ variables[1].value = Num(7)

\* no two entries of store vs have the same name
NoTwoAlike(vs) == \A i, j \in 1..Len(vs) : vs[i].name = vs[j].name => i = j

\* C18: the store never holds more than MAX_VARIABLES entries nor two entries
\* of the same name, and no step makes it shorter, renames an entry or changes
\* the index find_variable returns for a stored name
C18_StoreIsStable ==
    /\ [](Len(variables) <= MAX_VARIABLES /\ NoTwoAlike(variables))
    /\ [][/\ Len(variables') >= Len(variables)
          /\ \A i \in 1..Len(variables) :
               /\ variables'[i].name = variables[i].name
               /\ find_variable(variables', variables[i].name)
                    = find_variable(variables, variables[i].name)]_vars

\* the longest name was assigned 2 and then stored again by the store command:
\* the store holds it once, at the index it was given
C18_Witness ==
    /\ call.step = 2
    /\ call.kind = "command"
    /\ call.line = CmdStore \o LimitName
    /\ call.err = ""
    /\ command_history = << LimitName \o <<" ", "=", " ", "2">>, CmdStore \o LimitName >>
    /\ variables = <<[name |-> ANS, value |-> Num(2)], [name |-> LimitName, value |-> Num(2)]>>
    /\ find_variable(variables, LimitName) = 1

\* the last step was a call of evaluate_expression
EvaluateExpressionCalled(cl, cl2) ==
    cl2.step = cl.step + 1 /\ cl2.fn = "evaluate_expression"

\* C19: a call of evaluate_expression, successful or not, leaves every entry
\* other than ans as it was, name, value and position; it adds no entry, except
\* that a successful call on a store without ans may add the one entry ans
C19_EvaluationTouchesOnlyAns ==
    [][EvaluateExpressionCalled(call, call') =>
         /\ \A i \in 1..Len(variables) :
              variables[i].name # ANS =>
                i <= Len(variables') /\ variables'[i] = variables[i]
         /\ \/ Len(variables') = Len(variables)
            \/ /\ find_variable(variables, ANS) = -1
               /\ ~isnan(call'.ret)
               /\ variables' = Append(variables, [name |-> ANS, value |-> call'.ret])
         /\ isnan(call'.ret) => variables' = variables]_vars

\* x + 1 evaluated to 3 after handle_assignment(x, 2): x keeps 2, ans holds 3
C19_Witness ==
    /\ call.fn = "evaluate_expression"
    /\ call.line = <<"x", "+", "1">>
    /\ call.ret = Num(3)
    /\ variables = <<[name |-> <<"x">>, value |-> Num(2)], [name |-> ANS, value |-> Num(3)]>>

(* ---------------- properties of the identifier resolution ----------------- *)

\* what stands for the token of a name that resolves to nothing
UnknownName == Token("UNKNOWN", 0, Num(0), "", "", <<>>)

\* the token name n is to resolve to on store vs with last result lr, as the
\* claim orders it: constant, function, variable; UnknownName for any other
Resolved(n, vs, lr) ==
    IF n \in ConstantNames THEN NumberToken(Const(ConstantSymbol(n)), 0)
    ELSE IF n = ANS THEN NumberToken(lr, 0)
    ELSE IF n \in FunctionNames THEN FunctionToken(FunctionOf(n))
    ELSE IF \E i \in 1..Len(vs) : vs[i].name = n
    THEN NumberToken(vs[CHOOSE i \in 1..Len(vs) : vs[i].name = n].value, 0)
    ELSE UnknownName

\* C20: tokenize turns a constant name into the number token of the constant
\* (of last_result for ans) and a function name into the function token of
\* function_map, whether or not the store holds an entry of that name; any
\* other name yields the value the store holds for it, or fails as unknown
C20_ResolutionOrder ==
    [][pc = "tokenize" /\ pc' # "tokenize" =>
         \A n \in NamesRead : \A pl \in NamePlaces(n) :
           input = pl[1] =>
             IF Resolved(n, variables, last_result) = UnknownName
             THEN tokens'.count = -1 /\ tokens'.err = ErrUnknownIdentifier
             ELSE /\ tokens'.count >= pl[2]
                  /\ tokens'.tokens[pl[2]] = Resolved(n, variables, last_result)]_vars

\* 2 + c was tokenized on the store that holds an entry c: the third token is
\* the speed of light
C20_Witness ==
    /\ pc = "shunting_yard"
    /\ input = <<"2", " ", "+", " ", "c">>
    /\ variables = ShadowStore
    /\ find_variable(variables, <<"c">>) >= 0
    /\ tokens.tokens[3] = NumberToken(Const("c"), 0)

(* ---------------- properties of the command-line expression mode --------- *)

\* the arguments joined with single spaces
RECURSIVE JoinedWithSpaces(_)
JoinedWithSpaces(args) ==
    IF Len(args) = 1 THEN args[1]
    ELSE args[1] \o <<" ">> \o JoinedWithSpaces(Tail(args))

\* C21: with arguments, main evaluates the arguments joined with single spaces
\* once, as an expression on the startup store, and does nothing else: it
\* returns 0 when that evaluation returns a value and 1 when it fails; it
\* returns 1 without evaluating when the joined text, with its terminator, does
\* not fit the buffer
C21_BatchMode ==
    pc = "exited" /\ argv # <<>> =>
      LET joined == JoinedWithSpaces(argv) IN
      IF Len(joined) >= CMD_LINE_EXPR_BUFFER_SIZE
      THEN /\ exit_code = 1
           /\ variables = StartupStore /\ last_result = Num(0) /\ memory = Num(0)
      ELSE LET r == evaluate_expression(joined, StartupStore, Num(0))
           IN /\ exit_code = (IF isnan(r.ret) THEN 1 ELSE 0)
              /\ call.ret = r.ret
              /\ variables = r.variables
              /\ last_result = r.last_result
              /\ memory = Num(0)

(* ---------------- properties of the unary sign ---------------------------- *)

\* the value of the digit text b negated: 0 - b
Negated(b) == Sub(Num(0), OperandValue(b))

\* C22: a unary minus negates only the operand that follows it: a o -b returns
\* a o (0 - b) for o among + - * / ^, -b returns 0 - b, and a * (-b) returns
\* a * (0 - b)
C22_UnaryMinus ==
    Returned =>
      \A a \in Operands, b \in Operands :
        /\ \A o \in {"+", "-", "*", "/", "^"} :
             input = UnaryBin(a, o, b) => Returns(ValueOf(o, OperandValue(a), Negated(b)))
        /\ input = <<"-">> \o b => Returns(Negated(b))
        /\ input = a \o <<" ", "*", " ">> \o Paren(<<"-">> \o b) =>
             Returns(Mul(OperandValue(a), Negated(b)))

\* C23: before a + or - tokenize emits the number 0 exactly when the sign
\* stands at the start, directly after an operator or directly after a left
\* parenthesis; anywhere else (after a number, a percentage literal, a
\* constant, a variable, a right parenthesis, and any other token) it emits
\* the operator alone
C23_SyntheticZero ==
    Tokenized =>
      \A sp \in SignPrefixes, gap \in { <<>>, <<" ">> }, sign \in {"+", "-"} :
        input = SignInput(sp[1], gap, sign) =>
          IF sp[3] \in {"start", "operator", "lparen"}
          THEN /\ tokens.count = sp[2] + 3
               /\ tokens.tokens[sp[2] + 1] = NumberToken(Num(0), 0)
               /\ tokens.tokens[sp[2] + 2] = OperatorToken(char_to_op(sign))
          ELSE /\ tokens.count = sp[2] + 2
               /\ tokens.tokens[sp[2] + 1] = OperatorToken(char_to_op(sign))

(* ---------------- properties of the calls of the entry points ------------- *)

\* C24: a text that holds name = itself fails as a whole, in evaluate_expression
\* and as the right-hand side of handle_assignment, with the error of the
\* converter for an assignment token; no variable is created or changed, the
\* one named in the text and the target of the assignment included
C24_InnerAssignmentFails ==
    [][call'.step = call.step + 1 /\ call'.line \in AssignmentTexts =>
         /\ isnan(call'.ret)
         /\ call'.err = ErrAssignmentToken
         /\ variables' = variables
         /\ last_result' = last_result]_vars

\* handle_assignment(x, "y = 5") failed after handle_assignment(x, "2"): x holds
\* 2 and there is no y
C24_Witness ==
    /\ call.fn = "handle_assignment"
    /\ call.var_name = <<"x">>
    /\ call.line = <<"y", " ", "=", " ", "5">>
    /\ isnan(call.ret)
    /\ variables = <<[name |-> <<"x">>, value |-> Num(2)], [name |-> ANS, value |-> Num(2)]>>

(* ---------------- properties of the evaluation stack ---------------------- *)

\* the token of the pass under way
PassToken == postfix.output[eval_i]

\* a pass of the loop has pushed its value
Passed == pc = "evaluate_postfix" /\ eval_i' = eval_i + 1

\* the stack below its top n values
Below(stk, n) == SubSeq(stk, 1, Len(stk) - n)

\* C25: during evaluate_postfix a number token is pushed with its own tag, an
\* operator pops two values and a function one, and what they push carries no
\* tag, the values below staying as they were: a tag on the stack is the tag of
\* a literal, and it is gone once an operator or a function has popped it; ^ and
\* % work on the numbers popped as they are, tagged or not
C25_TagIsTransient ==
    [][Passed =>
         LET top == Len(eval_stack)
             pushed == eval_stack'[Len(eval_stack')]
         IN
         /\ PassToken.type = "TOKEN_NUMBER" =>
              eval_stack' = Append(eval_stack,
                                   [num |-> PassToken.number,
                                    is_percentage |-> PassToken.is_percentage])
         /\ PassToken.type = "TOKEN_OPERATOR" =>
              /\ Below(eval_stack', 1) = Below(eval_stack, 2)
              /\ pushed.is_percentage = 0
              /\ PassToken.op = "OP_POW" =>
                   pushed.num = pow(eval_stack[top - 1].num, eval_stack[top].num)
              /\ PassToken.op = "OP_MOD" =>
                   pushed.num = fmod(eval_stack[top - 1].num, eval_stack[top].num)
         /\ PassToken.type = "TOKEN_FUNCTION" =>
              /\ Below(eval_stack', 1) = Below(eval_stack, 1)
              /\ pushed.is_percentage = 0]_vars

\* 20% 20% + has been evaluated: the stack holds the one value 24, untagged
C25_Witness ==
    /\ pc = "evaluate_postfix"
    /\ postfix.output = <<NumberToken(Num(20), 1), NumberToken(Num(20), 1),
                          OperatorToken("OP_ADD")>>
    /\ eval_i = 4
    /\ eval_stack = <<[num |-> Num(24), is_percentage |-> 0]>>

(* ---------------- properties of the percent sign -------------------------- *)

\* C26: a % between two numeric literals is the modulo operator whether or not
\* blanks stand around it: a%b, a %b and a% b return what a % b returns, the
\* remainder of a by b, and fail as a % b fails when b is 0
C26_ModuloWithoutBlanks ==
    Returned =>
      \A a \in ModuloNumbers, b \in ModuloNumbers :
      \A before \in { <<>>, <<" ">> }, after \in { <<>>, <<" ">> } :
        input = Spaced(a, before, after, b) =>
          /\ call.ret = evaluate_expression(Spaced(a, <<" ">>, <<" ">>, b), EvalStore, Num(0)).ret
          /\ Returns(ValueOf("%", OperandValue(a), OperandValue(b)))

(* ---------------- properties of the function calls ------------------------ *)

\* C27: an expression in which a function name is followed by something other
\* than a parenthesised argument fails with an error: it returns no value and
\* commits nothing
C27_FunctionNeedsParenthesis ==
    Returned /\ input \in BareFunctionInputs =>
        /\ isnan(call.ret)
        /\ call.err # ""
        /\ FailedUnchanged

\* ---- properties of the output queue ----

\* how many places of a token sequence hold the token t
Count(seq, t) == Cardinality({ k \in 1..Len(seq) : seq[k] = t })

\* the Number tokens of a token sequence, in order
Numbers(seq) ==
    LET IsNumber(t) == t.type = "TOKEN_NUMBER" IN SelectSeq(seq, IsNumber)

\* shunting_yard has returned, from evaluate_expression's call or the exact one
ShuntingYardReturned ==
    /\ tokens # NoTokens
    /\ input = <<>>
    /\ pc \in { "evaluate_postfix", "returned", "converted" }

\* C28: whenever shunting_yard succeeds its output holds no parenthesis, holds
\* every Number, Operator and Function token as often as the input does, keeps
\* the Number tokens in their input order and is no longer than token_count;
\* and with max_output >= token_count neither overflow error is returned
C28_OutputIsPermutation ==
    ShuntingYardReturned =>
        /\ postfix.err \notin ErrOutputOverflow \cup ErrStackOverflow
        /\ postfix.count >= 0 =>
              /\ postfix.count = Len(postfix.output)
              /\ postfix.count <= tokens.count
              /\ \A k \in 1..postfix.count :
                    postfix.output[k].type
                        \in { "TOKEN_NUMBER", "TOKEN_OPERATOR", "TOKEN_FUNCTION" }
              /\ \A t \in TokenAlphabet \ { LParenToken, RParenToken } :
                    Count(postfix.output, t) = Count(tokens.tokens, t)
              /\ Numbers(postfix.output) = Numbers(tokens.tokens)

\* the exact call has succeeded on ( 3 ) + 2: the output 3 2 + is shorter
\* than the input and keeps the numbers 3, 2 in their order
C28_Witness ==
    /\ pc = "converted"
    /\ tokens.tokens = << LParenToken, NumberToken(Num(3), 0), RParenToken,
                          OperatorToken("OP_ADD"), NumberToken(Num(2), 0) >>
    /\ postfix.count = 3
    /\ postfix.output = << NumberToken(Num(3), 0), NumberToken(Num(2), 0),
                           OperatorToken("OP_ADD") >>

\* ---- properties of the command history ----

\* a command that is neither empty nor the literal history
Storable(cmd) == Len(cmd) > 0 /\ cmd # <<"h", "i", "s", "t", "o", "r", "y">>

\* the k-th command is accepted: it is storable and differs from the storable
\* command before it, if any (that one is the most recently stored entry: it
\* was stored, or refused for being equal to the entry stored last)
AcceptedAt(cmds, k) ==
    /\ Storable(cmds[k])
    /\ LET earlier == { j \in 1..(k - 1) : Storable(cmds[j]) }
       IN earlier # {} =>
            cmds[CHOOSE j \in earlier : \A m \in earlier : m <= j] # cmds[k]

\* the accepted commands, in the order of the calls
Accepted(cmds) ==
    LET at == { k \in 1..Len(cmds) : AcceptedAt(cmds, k) }
    IN [j \in 1..Cardinality(at) |->
          cmds[CHOOSE k \in at : Cardinality({ m \in at : m <= k }) = j]]

\* the last n entries of a sequence, all of them when it is shorter
MostRecent(seq, n) ==
    IF Len(seq) <= n THEN seq ELSE SubSeq(seq, Len(seq) - n + 1, Len(seq))

HistoryFollowsCalls(history, cmds) ==
    /\ Len(history) <= HISTORY_SIZE
    /\ history = MostRecent(Accepted(cmds), HISTORY_SIZE)

\* C29: after any sequence of add_to_history calls the history holds, in
\* insertion order, the most recent min(n, HISTORY_SIZE) accepted commands,
\* history_count never exceeds HISTORY_SIZE, and a call that changes a full
\* history removes its oldest entry and nothing else
C29_HistoryIsRecentCommands ==
    [][/\ HistoryFollowsCalls(command_history, commands)
       /\ HistoryFollowsCalls(command_history', commands')
       /\ Len(command_history) = HISTORY_SIZE /\ command_history' # command_history =>
             /\ Len(command_history') = HISTORY_SIZE
             /\ \A k \in 1..(HISTORY_SIZE - 1) :
                   command_history'[k] = command_history[k + 1]
             /\ command_history'[HISTORY_SIZE] = commands'[Len(commands')]]_vars

\* a full history has lost its two oldest lines to two accepted commands,
\* after refusing the empty command, history and a repeated line
C29_Witness ==
    /\ pc = "add_to_history"
    /\ Len(commands) > HISTORY_SIZE + 2
    /\ Len(command_history) = HISTORY_SIZE
    /\ Len(Accepted(commands)) = HISTORY_SIZE + 2
    /\ command_history[1] = commands[3]
    /\ command_history[HISTORY_SIZE] = Wide(NMRI_MAX_INPUT - 1)

\* ---- properties of the memory register ----

\* the command of the cycle just made, without the blanks around it
CommandMade(c) == IF c.kind = "command" THEN Trimmed(Start(c.line)) ELSE <<>>

\* the store differs from the one before at most in the value of ans
OnlyAnsSet(before, after) ==
    /\ Len(after) = Len(before)
    /\ \A k \in 1..Len(before) :
          /\ after[k].name = before[k].name
          /\ before[k].name # ANS => after[k] = before[k]

\* C30: m+ adds last_result to memory, m- subtracts it and mc sets memory to 0,
\* each leaving last_result and the store (ans included) as they were; mr
\* copies memory into last_result and ans and leaves memory and the rest of
\* the store as they were; evaluation and assignment never change memory
C30_MemoryCommandsFrame ==
    [][/\ CommandMade(call') = CmdMPlus =>
             /\ memory' = Add(memory, last_result)
             /\ UNCHANGED <<last_result, variables>>
       /\ CommandMade(call') = CmdMMinus =>
             /\ memory' = Sub(memory, last_result)
             /\ UNCHANGED <<last_result, variables>>
       /\ CommandMade(call') = CmdMc =>
             /\ memory' = Num(0)
             /\ UNCHANGED <<last_result, variables>>
       /\ CommandMade(call') = CmdMr =>
             /\ last_result' = memory
             /\ AnsValue(variables') = memory
             /\ OnlyAnsSet(variables, variables')
             /\ UNCHANGED memory
       /\ call'.kind \in { "expression", "assignment", "rejected", "empty" } =>
             UNCHANGED memory]_vars

\* after m+ on memory 3 and last result 2 the memory holds 5, and mr has
\* copied it into last_result and ans
C30_Witness ==
    /\ call.step = 2
    /\ CommandMade(call) = CmdMr
    /\ memory = Num(5)
    /\ last_result = Num(5)
    /\ AnsValue(variables) = Num(5)

====
